---------------------------- MODULE Spec2Model ----------------------------
(***************************************************************************)
(* Model of the image-link engine of obsidian-image-processor              *)
(* (src/src/main.ts, second plugin class, and src/src/util.ts).            *)
(*                                                                         *)
(* Strings are sequences of tokens.  A token is either one of the          *)
(* characters the plugin's regular expressions look at ("!", "[", "]",     *)
(* "(", ")", "|", " ", "/", "_", ".", a newline), the three-character      *)
(* escape "%20", or an atom: a run of characters none of which is one of   *)
(* those.  Every regular expression of the source is translated to a       *)
(* matcher over such sequences.                                            *)
(***************************************************************************)
EXTENDS Integers, Sequences, FiniteSets, TLC

\* ------------------------------------------------------------------ tokens

NL == "\n"

\* Atoms that begin with the four letters "http" (String.startsWith("http"),
\* and the literal http of the URL regular expressions).
HttpAtoms == {"http://x.com/a", "http://c/d", "https://e/f", "httpdocs"}

startsWithHttp(s) == Len(s) > 0 /\ s[1] \in HttpAtoms

Undefined == <<>>

\* s.replace(/ /g, "%20")
encodeSpaces(s) == [i \in 1..Len(s) |-> IF s[i] = " " THEN "%20" ELSE s[i]]

\* s.replace(/%20/g, " ")
decodeSpaces(s) == [i \in 1..Len(s) |-> IF s[i] = "%20" THEN " " ELSE s[i]]

\* Smallest index >= i of token tok in s, 0 when there is none.
RECURSIVE IndexFrom(_, _, _)
IndexFrom(s, tok, i) ==
    IF i > Len(s) THEN 0
    ELSE IF s[i] = tok THEN i
    ELSE IndexFrom(s, tok, i + 1)

\* Whether the tokens of lit stand in s from index i on.
LitAt(s, i, lit) ==
    /\ i >= 1
    /\ i + Len(lit) - 1 <= Len(s)
    /\ \A k \in 1..Len(lit) : s[i + k - 1] = lit[k]

At(s, i) == IF i >= 1 /\ i <= Len(s) THEN s[i] ELSE ""

\* Map.get on an insertion-ordered Map held as a sequence of <<key, value>>.
RECURSIVE MapGetFrom(_, _, _)
MapGetFrom(m, k, i) ==
    IF i > Len(m) THEN Undefined
    ELSE IF m[i][1] = k THEN m[i][2]
    ELSE MapGetFrom(m, k, i + 1)

MapGet(m, k) == MapGetFrom(m, k, 1)

MapHas(m, k) == \E i \in 1..Len(m) : m[i][1] = k

\* Map.set: overwrite in place when the key is present, append otherwise.
MapSet(m, k, v) ==
    IF MapHas(m, k)
    THEN [i \in 1..Len(m) |-> IF m[i][1] = k THEN <<k, v>> ELSE m[i]]
    ELSE Append(m, <<k, v>>)

MapKeys(m) == {m[i][1] : i \in 1..Len(m)}

\* ------------------------------------------------- replaceImageUrls (remote)

\* The template the two callbacks of replaceImageUrls share.
renderDownloaded(alt, downloadedPath, style) ==
    IF style = "wiki"
    THEN IF alt # <<>>
         THEN <<"!", "[", "[">> \o downloadedPath \o <<"|">> \o alt \o <<"]", "]">>
         ELSE <<"!", "[", "[">> \o downloadedPath \o <<"]", "]">>
    ELSE <<"!", "[">> \o alt \o <<"]", "(">> \o encodeSpaces(downloadedPath) \o <<")">>

\* End of the lazy group (.*?) in  (.*?)\]\((http[^)]+)\) : the index j of the
\* first "]" at or after i such that "(", an http atom and later a ")" follow
\* it; "." does not cross a newline.  0 when there is none.
RECURSIVE LazyAltEnd(_, _)
LazyAltEnd(s, j) ==
    IF j > Len(s) THEN 0
    ELSE IF /\ s[j] = "]"
            /\ At(s, j + 1) = "("
            /\ At(s, j + 2) \in HttpAtoms
            /\ IndexFrom(s, ")", j + 3) # 0
         THEN j
    ELSE IF s[j] = NL THEN 0
    ELSE LazyAltEnd(s, j + 1)

NoMatch == [ok |-> FALSE, alt |-> <<>>, url |-> <<>>, last |-> 0]

\* /!\[(.*?)\]\((http[^)]+)\)/ anchored at index i.
SimpleUrlMatchAt(s, i) ==
    IF ~LitAt(s, i, <<"!", "[">>) THEN NoMatch
    ELSE LET j == LazyAltEnd(s, i + 2) IN
         IF j = 0 THEN NoMatch
         ELSE LET e == IndexFrom(s, ")", j + 3) IN
              [ok |-> TRUE, alt |-> SubSeq(s, i + 2, j - 1),
               url |-> SubSeq(s, j + 2, e - 1), last |-> e]

\* /\[!\[(.*?)\]\((http[^)]+)\)\]\([^)]+\)/ anchored at index i.  The lazy
\* group grows until the rest of the pattern matches, so a candidate "]" whose
\* URL is not followed by "](target)" is passed over.
RECURSIVE WrappedAltEnd(_, _)
WrappedAltEnd(s, j) ==
    IF j > Len(s) THEN 0
    ELSE IF /\ s[j] = "]"
            /\ At(s, j + 1) = "("
            /\ At(s, j + 2) \in HttpAtoms
            /\ LET e == IndexFrom(s, ")", j + 3) IN
               /\ e # 0
               /\ At(s, e + 1) = "]"
               /\ At(s, e + 2) = "("
               /\ At(s, e + 3) \notin {"", ")"}
               /\ IndexFrom(s, ")", e + 4) # 0
         THEN j
    ELSE IF s[j] = NL THEN 0
    ELSE WrappedAltEnd(s, j + 1)

WrappedUrlMatchAt(s, i) ==
    IF ~LitAt(s, i, <<"[", "!", "[">>) THEN NoMatch
    ELSE LET j == WrappedAltEnd(s, i + 3) IN
         IF j = 0 THEN NoMatch
         ELSE LET e == IndexFrom(s, ")", j + 3)
                  f == IndexFrom(s, ")", e + 4)
              IN  [ok |-> TRUE, alt |-> SubSeq(s, i + 3, j - 1),
                   url |-> SubSeq(s, j + 2, e - 1), last |-> f]

\* urlCallback without the early return for a URL that is not a key.
urlCallback_noGuard(s, i, m, downloadedPaths, style) ==
    renderDownloaded(m.alt, MapGet(downloadedPaths, m.url), style)

\* urlCallback returning the match one token short when the URL is not a key.
urlCallback_sliceShort(s, i, m, downloadedPaths, style) ==
    LET downloadedPath == MapGet(downloadedPaths, m.url) IN
    IF downloadedPath = Undefined THEN SubSeq(s, i, m.last - 1)
    ELSE renderDownloaded(m.alt, downloadedPath, style)

\* The callback (match, alt, url) => ... of both passes.
urlCallback(s, i, m, downloadedPaths, style) ==
    LET downloadedPath == MapGet(downloadedPaths, m.url) IN
    IF downloadedPath = Undefined THEN SubSeq(s, i, m.last)
    ELSE renderDownloaded(m.alt, downloadedPath, style)

\* First pass of replaceImageUrls: String.replace with the wrapped pattern, /g.
RECURSIVE replaceWrappedFrom(_, _, _, _)
replaceWrappedFrom(s, i, downloadedPaths, style) ==
    IF i > Len(s) THEN <<>>
    ELSE LET m == WrappedUrlMatchAt(s, i) IN
         IF m.ok
         THEN urlCallback(s, i, m, downloadedPaths, style)
              \o replaceWrappedFrom(s, m.last + 1, downloadedPaths, style)
         ELSE <<s[i]>> \o replaceWrappedFrom(s, i + 1, downloadedPaths, style)

\* Second pass of replaceImageUrls: String.replace with the simple pattern, /g.
RECURSIVE replaceSimpleFrom(_, _, _, _)
replaceSimpleFrom(s, i, downloadedPaths, style) ==
    IF i > Len(s) THEN <<>>
    ELSE LET m == SimpleUrlMatchAt(s, i) IN
         IF m.ok
         THEN urlCallback(s, i, m, downloadedPaths, style)
              \o replaceSimpleFrom(s, m.last + 1, downloadedPaths, style)
         ELSE <<s[i]>> \o replaceSimpleFrom(s, i + 1, downloadedPaths, style)

\* replaceImageUrls with the two passes in the other order.
replaceImageUrls_simpleFirst(content, downloadedPaths, style) ==
    LET updatedContent == replaceSimpleFrom(content, 1, downloadedPaths, style)
    IN  replaceWrappedFrom(updatedContent, 1, downloadedPaths, style)

replaceImageUrls(content, downloadedPaths, style) ==
    LET updatedContent == replaceWrappedFrom(content, 1, downloadedPaths, style)
    IN  replaceSimpleFrom(updatedContent, 1, downloadedPaths, style)


\* ------------------------------------------------- replaceImagePaths (local)

\* new RegExp(`!\[\[${escapeRegExp(oldPath)}(\|[^\]]+)?\]\]`) anchored at i.
\* altPart is the optional group, "|" included.
ObsidianMatchAt(s, i, oldPath) ==
    LET p == i + 3 + Len(oldPath)
        q == IndexFrom(s, "]", p + 1)
    IN  IF ~LitAt(s, i, <<"!", "[", "[">> \o oldPath) THEN
            [ok |-> FALSE, altPart |-> <<>>, last |-> 0]
        ELSE IF At(s, p) = "|" /\ q > p + 1 /\ At(s, q + 1) = "]" THEN
            [ok |-> TRUE, altPart |-> SubSeq(s, p, q - 1), last |-> q + 1]
        ELSE IF At(s, p) = "]" /\ At(s, p + 1) = "]" THEN
            [ok |-> TRUE, altPart |-> <<>>, last |-> p + 1]
        ELSE [ok |-> FALSE, altPart |-> <<>>, last |-> 0]

\* new RegExp(`!\[([^\]]*)\]\(${escapeRegExp(path)}\)`) anchored at i.
MarkdownMatchAt(s, i, path) ==
    LET j == IndexFrom(s, "]", i + 2) IN
    IF /\ LitAt(s, i, <<"!", "[">>)
       /\ j # 0
       /\ LitAt(s, j + 1, <<"(">> \o path \o <<")">>)
    THEN [ok |-> TRUE, alt |-> SubSeq(s, i + 2, j - 1), last |-> j + 2 + Len(path)]
    ELSE [ok |-> FALSE, alt |-> <<>>, last |-> 0]

\* Callback of the obsidianPattern replace in replaceImagePaths.
obsidianCallback(altPart, newPath, style) ==
    IF style = "wiki"
    THEN <<"!", "[", "[">> \o newPath \o altPart \o <<"]", "]">>
    ELSE LET alt == IF altPart # <<>> THEN Tail(altPart) ELSE <<>> IN
         <<"!", "[">> \o alt \o <<"]", "(">> \o encodeSpaces(newPath) \o <<")">>

\* Callback of the two markdown-pattern replaces in replaceImagePaths.
markdownCallback(alt, newPath, style) ==
    IF style = "wiki"
    THEN IF alt # <<>>
         THEN <<"!", "[", "[">> \o newPath \o <<"|">> \o alt \o <<"]", "]">>
         ELSE <<"!", "[", "[">> \o newPath \o <<"]", "]">>
    ELSE <<"!", "[">> \o alt \o <<"]", "(">> \o encodeSpaces(newPath) \o <<")">>

RECURSIVE replaceObsidianFrom(_, _, _, _, _)
replaceObsidianFrom(s, i, oldPath, newPath, style) ==
    IF i > Len(s) THEN <<>>
    ELSE LET m == ObsidianMatchAt(s, i, oldPath) IN
         IF m.ok
         THEN obsidianCallback(m.altPart, newPath, style)
              \o replaceObsidianFrom(s, m.last + 1, oldPath, newPath, style)
         ELSE <<s[i]>> \o replaceObsidianFrom(s, i + 1, oldPath, newPath, style)

RECURSIVE replaceMarkdownFrom(_, _, _, _, _)
replaceMarkdownFrom(s, i, path, newPath, style) ==
    IF i > Len(s) THEN <<>>
    ELSE LET m == MarkdownMatchAt(s, i, path) IN
         IF m.ok
         THEN markdownCallback(m.alt, newPath, style)
              \o replaceMarkdownFrom(s, m.last + 1, path, newPath, style)
         ELSE <<s[i]>> \o replaceMarkdownFrom(s, i + 1, path, newPath, style)

\* One turn of the for-of loop over pathsMap.
replaceOnePath(content, oldPath, newPath, style) ==
    LET c1 == replaceObsidianFrom(content, 1, oldPath, newPath, style)
        c2 == replaceMarkdownFrom(c1, 1, encodeSpaces(oldPath), newPath, style)
    IN  replaceMarkdownFrom(c2, 1, oldPath, newPath, style)

RECURSIVE replacePathsFrom(_, _, _, _)
replacePathsFrom(content, pathsMap, k, style) ==
    IF k > Len(pathsMap) THEN content
    ELSE replacePathsFrom(
             replaceOnePath(content, pathsMap[k][1], pathsMap[k][2], style),
             pathsMap, k + 1, style)

replaceImagePaths(content, pathsMap, style) ==
    replacePathsFrom(content, pathsMap, 1, style)


\* ------------------------------------------------------------ extraction

\* Smallest index >= i of tok in s with no line break before it, else 0.
RECURSIVE IndexOnLine(_, _, _)
IndexOnLine(s, tok, i) ==
    IF i > Len(s) THEN 0
    ELSE IF s[i] = tok THEN i
    ELSE IF s[i] = NL THEN 0
    ELSE IndexOnLine(s, tok, i + 1)

\* (http.*?)\)\]\([^)]+\) : the first ")" on the line, at or after e, that
\* "](", a target and ")" follow.
RECURSIVE WrappedExtractUrlEnd(_, _)
WrappedExtractUrlEnd(s, e) ==
    IF e > Len(s) THEN 0
    ELSE IF /\ s[e] = ")"
            /\ At(s, e + 1) = "]"
            /\ At(s, e + 2) = "("
            /\ At(s, e + 3) \notin {"", ")"}
            /\ IndexFrom(s, ")", e + 4) # 0
         THEN e
    ELSE IF s[e] = NL THEN 0
    ELSE WrappedExtractUrlEnd(s, e + 1)

RECURSIVE WrappedExtractAltEnd(_, _)
WrappedExtractAltEnd(s, j) ==
    IF j > Len(s) THEN 0
    ELSE IF /\ s[j] = "]"
            /\ At(s, j + 1) = "("
            /\ At(s, j + 2) \in HttpAtoms
            /\ WrappedExtractUrlEnd(s, j + 3) # 0
         THEN j
    ELSE IF s[j] = NL THEN 0
    ELSE WrappedExtractAltEnd(s, j + 1)

\* linkWrappedRegex /\[!\[.*?\]\((http.*?)\)\]\([^)]+\)/g anchored at i.
WrappedExtractAt(s, i) ==
    IF ~LitAt(s, i, <<"[", "!", "[">>) THEN NoMatch
    ELSE LET j == WrappedExtractAltEnd(s, i + 3) IN
         IF j = 0 THEN NoMatch
         ELSE LET e == WrappedExtractUrlEnd(s, j + 3) IN
              [ok |-> TRUE, alt |-> SubSeq(s, i + 3, j - 1),
               url |-> SubSeq(s, j + 2, e - 1),
               last |-> IndexFrom(s, ")", e + 4)]

RECURSIVE SimpleExtractAltEnd(_, _)
SimpleExtractAltEnd(s, j) ==
    IF j > Len(s) THEN 0
    ELSE IF /\ s[j] = "]"
            /\ At(s, j + 1) = "("
            /\ At(s, j + 2) \in HttpAtoms
            /\ IndexOnLine(s, ")", j + 3) # 0
         THEN j
    ELSE IF s[j] = NL THEN 0
    ELSE SimpleExtractAltEnd(s, j + 1)

\* simpleRegex /!\[.*?\]\((http.*?)\)/g anchored at i.
SimpleExtractAt(s, i) ==
    IF ~LitAt(s, i, <<"!", "[">>) THEN NoMatch
    ELSE LET j == SimpleExtractAltEnd(s, i + 2) IN
         IF j = 0 THEN NoMatch
         ELSE LET e == IndexOnLine(s, ")", j + 3) IN
              [ok |-> TRUE, alt |-> SubSeq(s, i + 2, j - 1),
               url |-> SubSeq(s, j + 2, e - 1), last |-> e]

\* while ((match = linkWrappedRegex.exec(content)) !== null) urls.push(match[1])
RECURSIVE wrappedUrlsFrom(_, _)
wrappedUrlsFrom(s, i) ==
    IF i > Len(s) THEN <<>>
    ELSE LET m == WrappedExtractAt(s, i) IN
         IF m.ok THEN <<m.url>> \o wrappedUrlsFrom(s, m.last + 1)
         ELSE wrappedUrlsFrom(s, i + 1)

\* The second while loop: push match[1] unless urls.includes(match[1]).
RECURSIVE simpleUrlsFrom(_, _, _)
simpleUrlsFrom(s, i, urls) ==
    IF i > Len(s) THEN urls
    ELSE LET m == SimpleExtractAt(s, i) IN
         IF m.ok
         THEN simpleUrlsFrom(s, m.last + 1,
                  IF \E k \in 1..Len(urls) : urls[k] = m.url THEN urls
                  ELSE Append(urls, m.url))
         ELSE simpleUrlsFrom(s, i + 1, urls)

extractNetworkImageUrls(content) ==
    simpleUrlsFrom(content, 1, wrappedUrlsFrom(content, 1))

\* The extensions of the local-image patterns (png|jpg|jpeg|gif|bmp|svg|webp).
localImageExtensions == {"png", "jpg", "jpeg", "gif", "bmp", "svg", "webp"}

\* Length of the longest run of tokens outside stop that starts at i.
RECURSIVE RunLen(_, _, _)
RunLen(s, i, stop) ==
    IF i > Len(s) \/ s[i] \in stop THEN 0 ELSE 1 + RunLen(s, i + 1, stop)

\* The target of an image pattern ends in "." and an image extension.
isImageTarget(t) ==
    /\ Len(t) >= 3
    /\ t[Len(t) - 1] = "."
    /\ t[Len(t)] \in localImageExtensions

\* /!\[\[([^\]|]+\.(png|...))(?:\|[^\]]+)?\]\]/gi anchored at i; the group of
\* /!\[\[([^\]|]+)(?:\|[^\]]+)?\]\]/ on the match is the same path.
ObsidianImageAt(s, i) ==
    LET n == RunLen(s, i + 3, {"]", "|"})
        p == i + 3 + n
        q == IndexFrom(s, "]", p + 1)
        path == SubSeq(s, i + 3, p - 1)
    IN  IF ~LitAt(s, i, <<"!", "[", "[">>) \/ ~isImageTarget(path) THEN
            [ok |-> FALSE, path |-> <<>>, last |-> 0]
        ELSE IF At(s, p) = "|" /\ q > p + 1 /\ At(s, q + 1) = "]" THEN
            [ok |-> TRUE, path |-> path, last |-> q + 1]
        ELSE IF At(s, p) = "]" /\ At(s, p + 1) = "]" THEN
            [ok |-> TRUE, path |-> path, last |-> p + 1]
        ELSE [ok |-> FALSE, path |-> <<>>, last |-> 0]

\* /!\[[^\]]*\]\(([^)]+\.(png|...))\)/gi anchored at i.
MarkdownImageAt(s, i) ==
    LET j == IndexFrom(s, "]", i + 2)
        n == RunLen(s, j + 2, {")"})
        path == SubSeq(s, j + 2, j + 1 + n)
    IN  IF /\ LitAt(s, i, <<"!", "[">>)
           /\ j # 0
           /\ At(s, j + 1) = "("
           /\ isImageTarget(path)
           /\ At(s, j + 2 + n) = ")"
        THEN [ok |-> TRUE, path |-> path, last |-> j + 2 + n]
        ELSE [ok |-> FALSE, path |-> <<>>, last |-> 0]

\* obsidianMatches.forEach: every match pushes its path.
RECURSIVE obsidianPathsFrom(_, _)
obsidianPathsFrom(s, i) ==
    IF i > Len(s) THEN <<>>
    ELSE LET m == ObsidianImageAt(s, i) IN
         IF m.ok THEN <<m.path>> \o obsidianPathsFrom(s, m.last + 1)
         ELSE obsidianPathsFrom(s, i + 1)

\* markdownMatches.forEach: a path that does not start with http is decoded
\* and pushed unless paths.includes(decodedPath).
RECURSIVE markdownPathsFrom(_, _, _)
markdownPathsFrom(s, i, paths) ==
    IF i > Len(s) THEN paths
    ELSE LET m == MarkdownImageAt(s, i) IN
         IF m.ok
         THEN markdownPathsFrom(s, m.last + 1,
                  IF startsWithHttp(m.path)
                     \/ \E k \in 1..Len(paths) : paths[k] = decodeSpaces(m.path)
                  THEN paths
                  ELSE Append(paths, decodeSpaces(m.path)))
         ELSE markdownPathsFrom(s, i + 1, paths)

extractLocalImagePaths(content) ==
    markdownPathsFrom(content, 1, obsidianPathsFrom(content, 1))

\* ------------------------------------------------------- paths and vault

\* path.split("/"): the segments of a path.
RECURSIVE split(_, _)
split(s, sep) ==
    LET k == IndexFrom(s, sep, 1) IN
    IF k = 0 THEN <<s>>
    ELSE <<SubSeq(s, 1, k - 1)>> \o split(SubSeq(s, k + 1, Len(s)), sep)

\* parts.join(sep)
RECURSIVE join(_, _)
join(parts, sep) ==
    IF parts = <<>> THEN <<>>
    ELSE IF Len(parts) = 1 THEN parts[1]
    ELSE parts[1] \o <<sep>> \o join(Tail(parts), sep)

\* parts.filter((p) => p)
RECURSIVE filterNonEmpty(_)
filterNonEmpty(parts) ==
    IF parts = <<>> THEN <<>>
    ELSE IF parts[1] = <<>> THEN filterNonEmpty(Tail(parts))
    ELSE <<parts[1]>> \o filterNonEmpty(Tail(parts))

pop(parts) == parts[Len(parts)]
sliceButLast(parts) == SubSeq(parts, 1, Len(parts) - 1)

\* TFile.name of a path and the path of its folder.
nameOf(path) == pop(split(path, "/"))
parentOf(path) == join(sliceButLast(split(path, "/")), "/")
\* name.split(".").slice(0, -1).join(".") and name.split(".").pop()
baseOf(name) == join(sliceButLast(split(name, ".")), ".")
extOf(name) == pop(split(name, "."))

includes(s, lit) == \E i \in 1..Len(s) : LitAt(s, i, lit)
startsWith(s, lit) == LitAt(s, 1, lit)
endsWith(s, lit) == Len(s) >= Len(lit) /\ LitAt(s, Len(s) - Len(lit) + 1, lit)

\* vault.getAbstractFileByPath(path) instanceof TFile, over the files of the
\* vault in the order getFiles() lists them.
isTFile(files, path) == \E k \in 1..Len(files) : files[k] = path

\* vault.createBinary / vault.delete / fileManager.renameFile on that list.
createBinary(files, path) == IF isTFile(files, path) THEN files ELSE Append(files, path)
RECURSIVE deleteFile(_, _)
deleteFile(files, path) ==
    IF files = <<>> THEN <<>>
    ELSE IF files[1] = path THEN Tail(files)
    ELSE <<files[1]>> \o deleteFile(Tail(files), path)
renameFile(files, path, newPath) ==
    [k \in 1..Len(files) |-> IF files[k] = path THEN newPath ELSE files[k]]

\* The folder new attachments go to: getAvailablePathForAttachment("") without
\* its last segment.
attachmentDir == <<"attachments">>

inDir(dir, name) == IF dir = <<>> THEN name ELSE dir \o <<"/">> \o name

\* fileManager.getAvailablePathForAttachment(base.ext): the name in the
\* attachment folder, with " 1", " 2" appended to the base while it is taken.
DedupMarks == <<"1", "2", "3", "4">>
RECURSIVE availableFrom(_, _, _, _)
availableFrom(files, base, ext, n) ==
    LET candidate == inDir(attachmentDir, base \o <<" ", DedupMarks[n], ".">> \o ext)
    IN  IF n >= Len(DedupMarks) \/ ~isTFile(files, candidate) THEN candidate
        ELSE availableFrom(files, base, ext, n + 1)
getAvailablePathForAttachment(files, base, ext) ==
    IF ~isTFile(files, inDir(attachmentDir, base \o <<".">> \o ext))
    THEN inDir(attachmentDir, base \o <<".">> \o ext)
    ELSE availableFrom(files, base, ext, 1)

\* The strings /^[a-z0-9]{5}$/ accepts, among the name parts of the model.
FiveLowerAlnum == {"ab12c", "x9z2q", "k3m7p"}

resolveRelativePath(basePath, relativePath) ==
    LET baseParts == IF basePath = <<>> THEN <<>>
                     ELSE filterNonEmpty(split(basePath, "/"))
        relativeParts == filterNonEmpty(split(relativePath, "/"))
        walk[k \in 0..Len(relativeParts)] ==
            IF k = 0 THEN baseParts
            ELSE IF relativeParts[k] = <<".", ".">> THEN
                    IF walk[k - 1] = <<>> THEN <<>> ELSE sliceButLast(walk[k - 1])
            ELSE IF relativeParts[k] = <<".">> THEN walk[k - 1]
            ELSE Append(walk[k - 1], relativeParts[k])
    IN  join(walk[Len(relativeParts)], "/")

\* allFiles.find((f) => f.name === imagePath)
RECURSIVE findByName(_, _)
findByName(files, name) ==
    IF files = <<>> THEN Undefined
    ELSE IF nameOf(files[1]) = name THEN files[1]
    ELSE findByName(Tail(files), name)

\* What a lookup that raises puts in place of a result, until it is caught.
Thrown == <<"Error">>

\* The branch for a name without "/" (mutation: the folder of the document
\* is tried before the attachment folder).  raisesAt numbers the lookup that
\* raises: 3 the attachment folder, 4 the folder of the document, 5 getFiles.
resolveBareName_documentDirFirst(imagePath, currentDir, files, raisesAt) ==
    IF currentDir # <<>> /\ raisesAt = 4 THEN Thrown
    ELSE IF currentDir # <<>> /\ isTFile(files, inDir(currentDir, imagePath))
         THEN inDir(currentDir, imagePath)
    ELSE IF raisesAt = 3 THEN Thrown
    ELSE IF isTFile(files, inDir(attachmentDir, imagePath))
         THEN inDir(attachmentDir, imagePath)
    ELSE IF raisesAt = 5 THEN Thrown
    ELSE findByName(files, imagePath)

\* if (!imagePath.includes("/")) { attachment folder; folder of the document;
\* allFiles.find }
resolveBareName(imagePath, currentDir, files, raisesAt) ==
    IF raisesAt = 3 THEN Thrown
    ELSE IF isTFile(files, inDir(attachmentDir, imagePath))
         THEN inDir(attachmentDir, imagePath)
    ELSE IF currentDir # <<>> /\ raisesAt = 4 THEN Thrown
    ELSE IF currentDir # <<>> /\ isTFile(files, inDir(currentDir, imagePath))
         THEN inDir(currentDir, imagePath)
    ELSE IF raisesAt = 5 THEN Thrown
    ELSE findByName(files, imagePath)

\* The try block of resolveImagePath; lookup 1 is the literal one, lookup 2
\* the one of the relative path.
resolveImagePathTry(imagePath, currentDir, files, raisesAt) ==
    IF startsWithHttp(imagePath) THEN Undefined
    ELSE IF raisesAt = 1 THEN Thrown
    ELSE IF isTFile(files, imagePath) THEN imagePath
    ELSE IF includes(imagePath, <<".", ".", "/">>) \/ startsWith(imagePath, <<".", "/">>)
         THEN IF raisesAt = 2 THEN Thrown
              ELSE IF isTFile(files, resolveRelativePath(currentDir, imagePath))
                   THEN resolveRelativePath(currentDir, imagePath)
              ELSE Undefined
    ELSE IF includes(imagePath, <<"/">>) THEN Undefined
    ELSE resolveBareName(imagePath, currentDir, files, raisesAt)

\* resolveImagePath without its catch (mutation).
resolveImagePathCaught_uncaught(imagePath, currentDir, files, raisesAt) ==
    resolveImagePathTry(imagePath, currentDir, files, raisesAt)

\* try { ... } catch (error) { return null }
resolveImagePathCaught(imagePath, currentDir, files, raisesAt) ==
    IF resolveImagePathTry(imagePath, currentDir, files, raisesAt) = Thrown
    THEN Undefined
    ELSE resolveImagePathTry(imagePath, currentDir, files, raisesAt)

\* resolveImagePath(imagePath, activeFile) for a document in folder currentDir,
\* over a vault whose lookups do not raise; Undefined stands for null.
resolveImagePath(imagePath, currentDir, files) ==
    resolveImagePathCaught(imagePath, currentDir, files, 0)

\* The extension settings.format converts to.
targetExt(format) == IF format = "JPEG" THEN <<"jpg">> ELSE <<"png">>

\* name is `${basename}_${five lower-case letters or digits}.${target ext}`.
isImagePathFormat(basename, imagePath, format) ==
    /\ Len(imagePath) = Len(basename) + 4
    /\ startsWith(imagePath, basename \o <<"_">>)
    /\ endsWith(imagePath, <<".">> \o targetExt(format))
    /\ imagePath[Len(basename) + 2] \in FiveLowerAlnum

\* areLocalImagesProcessed(tFile, localImagePaths)
areLocalImagesProcessed(basename, currentDir, localImagePaths, files, format) ==
    \A k \in 1..Len(localImagePaths) :
        LET resolvedPath == resolveImagePath(localImagePaths[k], currentDir, files) IN
        /\ resolvedPath # Undefined
        /\ startsWith(resolvedPath, attachmentDir)
        /\ isImagePathFormat(basename, nameOf(resolvedPath), format)

\* ------------------------------------------------- links of a renamed document

\* /!\[\[[^\]]+\.(png|...)(?:\|[^\]]+)?\]\]/gi anchored at i: the run up to
\* the first "]" ends in an image extension, or holds one right before a "|"
\* that something follows; "]]" closes it.
AnyObsidianImageAt(s, i) ==
    LET n == RunLen(s, i + 3, {"]"})
        run == SubSeq(s, i + 3, i + 2 + n)
    IN  IF /\ LitAt(s, i, <<"!", "[", "[">>)
           /\ LitAt(s, i + 3 + n, <<"]", "]">>)
           /\ \/ isImageTarget(run)
              \/ \E k \in 3..(n - 2) :
                    /\ isImageTarget(SubSeq(run, 1, k))
                    /\ run[k + 1] = "|"
        THEN [ok |-> TRUE, last |-> i + 4 + n]
        ELSE [ok |-> FALSE, last |-> 0]

\* content.match(obsidian pattern): the matched link texts, in order.
RECURSIVE obsidianLinksFrom(_, _)
obsidianLinksFrom(s, i) ==
    IF i > Len(s) THEN <<>>
    ELSE LET m == AnyObsidianImageAt(s, i) IN
         IF m.ok THEN <<SubSeq(s, i, m.last)>> \o obsidianLinksFrom(s, m.last + 1)
         ELSE obsidianLinksFrom(s, i + 1)

\* content.match(markdown pattern): the matched link texts, in order.
RECURSIVE markdownLinksFrom(_, _)
markdownLinksFrom(s, i) ==
    IF i > Len(s) THEN <<>>
    ELSE LET m == MarkdownImageAt(s, i) IN
         IF m.ok THEN <<SubSeq(s, i, m.last)>> \o markdownLinksFrom(s, m.last + 1)
         ELSE markdownLinksFrom(s, i + 1)

extractAllImageLinks(content) ==
    obsidianLinksFrom(content, 1) \o markdownLinksFrom(content, 1)

\* String.trim over blanks and line breaks.
RECURSIVE trimStart(_)
trimStart(s) ==
    IF s # <<>> /\ s[1] \in {" ", NL} THEN trimStart(Tail(s)) ELSE s
RECURSIVE trimEnd(_)
trimEnd(s) ==
    IF s # <<>> /\ s[Len(s)] \in {" ", NL} THEN trimEnd(SubSeq(s, 1, Len(s) - 1)) ELSE s
trim(s) == trimEnd(trimStart(s))

\* /!\[\[([^\]|]+)(?:\|[^\]]+)?\]\]/ found anywhere in link: its group.
RECURSIVE obsidianPathIn(_, _)
obsidianPathIn(link, i) ==
    IF i > Len(link) THEN Undefined
    ELSE LET n == RunLen(link, i + 3, {"]", "|"})
             p == i + 3 + n
             q == IndexFrom(link, "]", p + 1)
         IN  IF /\ LitAt(link, i, <<"!", "[", "[">>)
                /\ n > 0
                /\ \/ LitAt(link, p, <<"]", "]">>)
                   \/ At(link, p) = "|" /\ q > p + 1 /\ At(link, q + 1) = "]"
             THEN SubSeq(link, i + 3, p - 1)
             ELSE obsidianPathIn(link, i + 1)

\* /!\[[^\]]*\]\(([^)]+)\)/ found anywhere in link: its group.
RECURSIVE markdownPathIn(_, _)
markdownPathIn(link, i) ==
    IF i > Len(link) THEN Undefined
    ELSE LET j == IndexFrom(link, "]", i + 2)
             n == RunLen(link, j + 2, {")"})
         IN  IF /\ LitAt(link, i, <<"!", "[">>)
                /\ j # 0
                /\ At(link, j + 1) = "("
                /\ n > 0
                /\ At(link, j + 2 + n) = ")"
             THEN SubSeq(link, j + 2, j + 1 + n)
             ELSE markdownPathIn(link, i + 1)

\* extractImagePathFromLink(link); Undefined stands for null.
extractImagePathFromLink(link) ==
    IF trim(link) = <<>> THEN Undefined
    ELSE IF obsidianPathIn(link, 1) # Undefined THEN trim(obsidianPathIn(link, 1))
    ELSE IF markdownPathIn(link, 1) # Undefined
         THEN trim(decodeSpaces(markdownPathIn(link, 1)))
    ELSE Undefined

\* replace(obsidianPattern, (match, altPart) => `![[${newPath}${altPart || ""}]]`)
RECURSIVE updateObsidianFrom(_, _, _, _)
updateObsidianFrom(s, i, oldPath, newPath) ==
    IF i > Len(s) THEN <<>>
    ELSE LET m == ObsidianMatchAt(s, i, oldPath) IN
         IF m.ok
         THEN <<"!", "[", "[">> \o newPath \o m.altPart \o <<"]", "]">>
              \o updateObsidianFrom(s, m.last + 1, oldPath, newPath)
         ELSE <<s[i]>> \o updateObsidianFrom(s, i + 1, oldPath, newPath)

\* replace(markdownPattern, `![$1](${target})`)
RECURSIVE updateMarkdownFrom(_, _, _, _)
updateMarkdownFrom(s, i, path, target) ==
    IF i > Len(s) THEN <<>>
    ELSE LET m == MarkdownMatchAt(s, i, path) IN
         IF m.ok
         THEN <<"!", "[">> \o m.alt \o <<"]", "(">> \o target \o <<")">>
              \o updateMarkdownFrom(s, m.last + 1, path, target)
         ELSE <<s[i]>> \o updateMarkdownFrom(s, i + 1, path, target)

\* One turn of the for-of loop of updateImageLinksInContent.
updateOneImage(content, oldPath, newPath) ==
    LET c1 == updateObsidianFrom(content, 1, oldPath, newPath)
        c2 == updateMarkdownFrom(c1, 1, encodeSpaces(oldPath), encodeSpaces(newPath))
    IN  updateMarkdownFrom(c2, 1, oldPath, newPath)

RECURSIVE updateImagesFrom(_, _, _)
updateImagesFrom(content, renamedImages, k) ==
    IF k > Len(renamedImages) THEN content
    ELSE updateImagesFrom(
             updateOneImage(content, renamedImages[k][1], renamedImages[k][2]),
             renamedImages, k + 1)

updateImageLinksInContent(content, renamedImages) ==
    updateImagesFrom(content, renamedImages, 1)

\* name.replace(/\.md$/, "")
stripMd(name) ==
    IF endsWith(name, <<".", "md">>) THEN SubSeq(name, 1, Len(name) - 2) ELSE name

\* imageFileName.lastIndexOf("."), 0 when there is none.
RECURSIVE lastIndexOf(_, _, _)
lastIndexOf(s, tok, i) ==
    IF i = 0 THEN 0 ELSE IF s[i] = tok THEN i ELSE lastIndexOf(s, tok, i - 1)

\* imageNameWithoutExt.match(/_([a-z0-9]{5})$/): the suffix, or Undefined.
existingRandomMatch(imageNameWithoutExt) ==
    IF /\ Len(imageNameWithoutExt) >= 2
       /\ imageNameWithoutExt[Len(imageNameWithoutExt) - 1] = "_"
       /\ imageNameWithoutExt[Len(imageNameWithoutExt)] \in FiveLowerAlnum
    THEN <<imageNameWithoutExt[Len(imageNameWithoutExt)]>>
    ELSE Undefined

\* The suffix a renamed attachment gets (mutation: always the fresh one).
chooseRandomStr_alwaysFresh(imageNameWithoutExt, fresh) == fresh

\* randomStr: the suffix found in the old name, else a fresh one.
chooseRandomStr(imageNameWithoutExt, fresh) ==
    IF existingRandomMatch(imageNameWithoutExt) # Undefined
    THEN existingRandomMatch(imageNameWithoutExt)
    ELSE fresh

\* `${newFileName}_${randomStr}.${extension}` in the folder of the resolved path.
newResolvedImagePathOf(resolvedImagePath, newFileName, randomStr, extension) ==
    join(Append(sliceButLast(split(resolvedImagePath, "/")),
                newFileName \o <<"_">> \o randomStr \o <<".">> \o extension), "/")

\* renamedImages after a rename attempt (mutation: set whatever the outcome).
recordRename_evenIfRejected(renamedImages, imagePath, newPath, accepted) ==
    MapSet(renamedImages, imagePath, newPath)

\* renamedImages.set(imagePath, newResolvedImagePath) after renameFile returned;
\* a rename that threw leaves the map alone.
recordRename(renamedImages, imagePath, newPath, accepted) ==
    IF accepted THEN MapSet(renamedImages, imagePath, newPath) ELSE renamedImages

\* hasChanges after a rename attempt (mutation: set before the attempt).
hasChangesAfter_setBeforeRename(hasChanges, accepted) == TRUE

\* hasChanges = true sits in the try block, after renameFile returned.
hasChangesAfter(hasChanges, accepted) == hasChanges \/ accepted

\* for (const mapping of this.settings.refererMappings)
\*     if (url.includes(mapping.urlPattern)): the first entry whose pattern
\* the URL contains, 0 when there is none.  An entry is <<urlPattern, referer>>.
RECURSIVE firstMappingFrom(_, _, _)
firstMappingFrom(url, mappings, k) ==
    IF k > Len(mappings) THEN 0
    ELSE IF includes(url, mappings[k][1]) THEN k
    ELSE firstMappingFrom(url, mappings, k + 1)

\* processFile: the referer handed to processNetworkImages, that of the first
\* URL of the batch, in order, that has a matching entry; "" when none has.
RECURSIVE batchRefererFrom(_, _, _)
batchRefererFrom(urls, mappings, k) ==
    IF k > Len(urls) THEN ""
    ELSE IF firstMappingFrom(urls[k], mappings, 1) # 0
         THEN mappings[firstMappingFrom(urls[k], mappings, 1)][2]
    ELSE batchRefererFrom(urls, mappings, k + 1)

batchReferer(urls, mappings) == batchRefererFrom(urls, mappings, 1)

\* ------------------------------------------------- conversion of the style

\* /!\[(.*?)\]\(([^)]+?\.(png|jpg|jpeg|gif|bmp|svg|webp))\)/gi: the lazy alt
\* ends at the first "](" on the line after which the text up to the next ")"
\* is an image target; 0 when there is none.
RECURSIVE MarkdownConvertAltEnd(_, _)
MarkdownConvertAltEnd(s, j) ==
    IF j > Len(s) \/ s[j] = NL THEN 0
    ELSE IF /\ s[j] = "]"
            /\ At(s, j + 1) = "("
            /\ IndexFrom(s, ")", j + 2) # 0
            /\ isImageTarget(SubSeq(s, j + 2, IndexFrom(s, ")", j + 2) - 1))
         THEN j
    ELSE MarkdownConvertAltEnd(s, j + 1)

NoLink == [ok |-> FALSE, alt |-> <<>>, path |-> <<>>, last |-> 0]

MarkdownConvertAt(s, i) ==
    IF ~LitAt(s, i, <<"!", "[">>) THEN NoLink
    ELSE LET j == MarkdownConvertAltEnd(s, i + 2) IN
         IF j = 0 THEN NoLink
         ELSE LET e == IndexFrom(s, ")", j + 2) IN
              [ok |-> TRUE, alt |-> SubSeq(s, i + 2, j - 1),
               path |-> SubSeq(s, j + 2, e - 1), last |-> e]

\* (?:\|([^\]]+))?\]\] after the extension at q: the index of the last "]",
\* 0 when the pattern fails there.
ObsidianConvertTail(s, q) ==
    IF At(s, q + 1) = "|"
    THEN LET r == q + 2 + RunLen(s, q + 2, {"]"}) IN
         IF r > q + 2 /\ At(s, r) = "]" /\ At(s, r + 1) = "]" THEN r + 1 ELSE 0
    ELSE IF At(s, q + 1) = "]" /\ At(s, q + 2) = "]" THEN q + 2
    ELSE 0

\* (.+?\.(?:png|...)): the first extension on the line, from q on and with a
\* name before it, after which the rest of the pattern matches.
RECURSIVE ObsidianConvertPathEnd(_, _, _)
ObsidianConvertPathEnd(s, p, q) ==
    IF q > Len(s) \/ s[q] = NL THEN 0
    ELSE IF /\ q >= p + 2
            /\ s[q] \in localImageExtensions
            /\ s[q - 1] = "."
            /\ ObsidianConvertTail(s, q) # 0
         THEN q
    ELSE ObsidianConvertPathEnd(s, p, q + 1)

\* /!\[\[(.+?\.(?:png|jpg|jpeg|gif|bmp|svg|webp))(?:\|([^\]]+))?\]\]/gi
ObsidianConvertAt(s, i) ==
    IF ~LitAt(s, i, <<"!", "[", "[">>) THEN NoLink
    ELSE LET q == ObsidianConvertPathEnd(s, i + 3, i + 3) IN
         IF q = 0 THEN NoLink
         ELSE [ok |-> TRUE,
               alt |-> IF At(s, q + 1) = "|"
                       THEN SubSeq(s, q + 2, ObsidianConvertTail(s, q) - 2)
                       ELSE <<>>,
               path |-> SubSeq(s, i + 3, q),
               last |-> ObsidianConvertTail(s, q)]

\* The callback of convertMarkdownToObsidian.
markdownToObsidianLink(alt, path) ==
    IF alt # <<>>
    THEN <<"!", "[", "[">> \o decodeSpaces(path) \o <<"|">> \o alt \o <<"]", "]">>
    ELSE <<"!", "[", "[">> \o decodeSpaces(path) \o <<"]", "]">>

\* The callback of convertObsidianToMarkdown.
obsidianToMarkdownLink(alt, path) ==
    <<"!", "[">> \o alt \o <<"]", "(">> \o encodeSpaces(path) \o <<")">>

RECURSIVE markdownToObsidianFrom(_, _)
markdownToObsidianFrom(s, i) ==
    IF i > Len(s) THEN <<>>
    ELSE LET m == MarkdownConvertAt(s, i) IN
         IF m.ok THEN markdownToObsidianLink(m.alt, m.path)
                          \o markdownToObsidianFrom(s, m.last + 1)
         ELSE <<s[i]>> \o markdownToObsidianFrom(s, i + 1)

RECURSIVE obsidianToMarkdownFrom(_, _)
obsidianToMarkdownFrom(s, i) ==
    IF i > Len(s) THEN <<>>
    ELSE LET m == ObsidianConvertAt(s, i) IN
         IF m.ok THEN obsidianToMarkdownLink(m.alt, m.path)
                          \o obsidianToMarkdownFrom(s, m.last + 1)
         ELSE <<s[i]>> \o obsidianToMarkdownFrom(s, i + 1)

\* The text convertMarkdownToObsidian / convertObsidianToMarkdown write.
convertMarkdownToObsidian(content) == markdownToObsidianFrom(content, 1)
convertObsidianToMarkdown(content) == obsidianToMarkdownFrom(content, 1)

\* ------------------------------------------- replacement of one image

\* line.replace(originalMatch, replacementText): the first occurrence only.
RECURSIVE replaceFirstFrom(_, _, _, _)
replaceFirstFrom(line, i, lit, replacementText) ==
    IF i > Len(line) THEN <<>>
    ELSE IF LitAt(line, i, lit)
         THEN replacementText \o SubSeq(line, i + Len(lit), Len(line))
    ELSE <<line[i]>> \o replaceFirstFrom(line, i + 1, lit, replacementText)

\* originalMatch.match(/!\[(.*?)\]/): the text up to the first "]".
altTextOf(originalMatch) ==
    IF LitAt(originalMatch, 1, <<"!", "[">>) /\ IndexFrom(originalMatch, "]", 3) # 0
    THEN SubSeq(originalMatch, 3, IndexFrom(originalMatch, "]", 3) - 1)
    ELSE <<>>

\* replacementText of downloadAndReplaceSingleImage.
singleReplacementText(style, altText, normalizedPath) ==
    IF style = "wiki"
    THEN IF altText # <<>>
         THEN <<"!", "[", "[">> \o normalizedPath \o <<"|">> \o altText \o <<"]", "]">>
         ELSE <<"!", "[", "[">> \o normalizedPath \o <<"]", "]">>
    ELSE <<"!", "[">> \o altText \o <<"]", "(">> \o normalizedPath \o <<")">>

\* The line downloadAndReplaceSingleImage sets.
replaceSingleImage(currentLine, originalMatch, normalizedPath, style) ==
    replaceFirstFrom(currentLine, 1, originalMatch,
        singleReplacementText(style, altTextOf(originalMatch), normalizedPath))

\* ---------------------------------------------------------------- state

VARIABLES
    style,      \* settings.style: "wiki" or "markdown"
    fnOp,       \* which rewrite function the text is handed to
    fnText,     \* the text handed to it
    fnMap,      \* the Map handed to it
    fnArgs,     \* its other arguments
    fnOut,      \* the results of the successive applications
    allFiles,           \* app.vault.getFiles(): paths in enumeration order
    frontmatter,        \* metadataCache.getFileCache(f)?.frontmatter per document
    linkMatches,        \* what the link extractor finds in each document body
    resolvedLinks,      \* app.metadataCache.resolvedLinks
    canvasRead,         \* vault.cachedRead of each canvas file
    excludedExtensions, \* settings.excludedExtensions, split and trimmed
    unusedResult,       \* what getUnusedAttachments returned
    format,             \* settings.format: "JPEG" or "PNG"
    refererMappings,    \* settings.refererMappings, in list order
    referer,            \* the referer processNetworkImages was called with
    vaultFiles,         \* the attachments of the vault, as getFiles() lists them
    docText,            \* the text of the document as last written
    writes,             \* how often editor.setValue / vault.modify wrote it
    pc,                 \* where the running handler stands
    content,            \* this.content, the text read when the batch began
    networkImageUrls,   \* the batch's remote targets
    localImagePaths,    \* the batch's local targets
    loopIndex,          \* i of the running for loop, counted from 1
    processedMap,       \* processedMap of the running loop
    successCount,       \* successCount of the running loop
    imageFile,          \* path of `file`, the attachment being converted
    newAttachmentPath,  \* where its converted copy goes
    fileRenameEnabled,  \* settings.fileRenameEnabled
    eventFile,          \* path of the file a rename event reports
    eventOldPath,       \* the path it had before
    imageLinks,         \* the local image links of the renamed document
    renamedImages,      \* renamedImages: raw target -> new vault path
    hasChanges,         \* hasChanges of the rename flow
    failedRenames,      \* raw target and resolved path of each rejected rename
    parked,             \* the locals of a rename callback waiting at an await
    secondRun,          \* whether processFile was invoked again on the document
    otherText           \* the text of another document of the vault

fnVars == <<fnOp, fnText, fnMap, fnArgs, fnOut>>

reachVars == <<allFiles, frontmatter, linkMatches, resolvedLinks, canvasRead,
               excludedExtensions, unusedResult>>

batchVars == <<format, refererMappings, referer,
                   vaultFiles, docText, writes, pc, content,
               networkImageUrls, localImagePaths, loopIndex, processedMap,
               successCount, imageFile, newAttachmentPath>>

renameVars == <<fileRenameEnabled, eventFile, eventOldPath, imageLinks,
                renamedImages, hasChanges, failedRenames>>

sessionVars == <<parked, secondRun, otherText>>

vars == <<style, sessionVars, fnVars, reachVars, batchVars, renameVars>>

Styles == {"wiki", "markdown"}

\* The parts of the state an operation under study does not touch.
SessionIdle ==
    /\ parked = <<>>
    /\ secondRun = FALSE
    /\ otherText = <<>>

FnIdle ==
    /\ fnOp = "none"
    /\ fnText = <<>>
    /\ fnMap = <<>>
    /\ fnArgs = <<>>
    /\ fnOut = <<>>

BatchIdle ==
    /\ format = "JPEG"
    /\ refererMappings = <<>>
    /\ referer = ""
    /\ vaultFiles = <<>>
    /\ docText = <<>>
    /\ writes = 0
    /\ pc = "idle"
    /\ content = <<>>
    /\ networkImageUrls = <<>>
    /\ localImagePaths = <<>>
    /\ loopIndex = 0
    /\ processedMap = <<>>
    /\ successCount = 0
    /\ imageFile = <<>>
    /\ newAttachmentPath = <<>>

RenameIdle ==
    /\ fileRenameEnabled = TRUE
    /\ eventFile = <<>>
    /\ eventOldPath = <<>>
    /\ imageLinks = <<>>
    /\ renamedImages = <<>>
    /\ hasChanges = FALSE
    /\ failedRenames = <<>>

ReachIdle ==
    /\ allFiles = <<>>
    /\ frontmatter = <<>>
    /\ linkMatches = <<>>
    /\ resolvedLinks = <<>>
    /\ canvasRead = <<>>
    /\ excludedExtensions = {}
    /\ unusedResult = [done |-> FALSE]

\* ------------------------------------------- inputs of the rewrite functions

MaxFrags == 2
MaxMap == 2

U1 == <<"http://x.com/a", ".", "webp">>
U2 == <<"http://c/d", ".", "png">>
L1 == <<"pic", ".", "png">>
L2 == <<"my", " ", "pic", ".", "png">>
N1 == <<"attachments", "/", "doc", "_", "ab12c", ".", "jpg">>
N2 == <<"my", " ", "att", "/", "doc", "_", "x9z2q", ".", "png">>

MdLink(alt, target) == <<"!", "[">> \o alt \o <<"]", "(">> \o target \o <<")">>
WikiLink(alt, target) ==
    IF alt = <<>> THEN <<"!", "[", "[">> \o target \o <<"]", "]">>
    ELSE <<"!", "[", "[">> \o target \o <<"|">> \o alt \o <<"]", "]">>
Wrapped(alt, target, target2) ==
    <<"[">> \o MdLink(alt, target) \o <<"]", "(">> \o target2 \o <<")">>

\* The simple links and the other well-formed pieces a text is assembled from.
UrlSimpleFrags ==
    {MdLink(<<"a">>, U1), MdLink(<<>>, U1), MdLink(<<"b">>, U2),
     MdLink(<<"c">>, L1), WikiLink(<<"c">>, L1)}
UrlFrags ==
    UrlSimpleFrags \cup
    {Wrapped(<<"a">>, U1, U2), <<"]", "(">> \o U1 \o <<")">>, <<NL>>}

PathSimpleFrags ==
    {WikiLink(<<>>, L1), WikiLink(<<"c">>, L1), MdLink(<<"c">>, L1),
     MdLink(<<>>, encodeSpaces(L2)), MdLink(<<"d">>, L2), WikiLink(<<"d">>, L2),
     MdLink(<<"b">>, U2)}
PathFrags == PathSimpleFrags \cup {Wrapped(<<"c">>, L1, U2)}

RECURSIVE TextsOver(_, _)
TextsOver(frags, n) ==
    IF n = 0 THEN {<<>>}
    ELSE LET shorter == TextsOver(frags, n - 1) IN
         shorter \cup {t \o f : t \in shorter, f \in frags}

\* Insertion-ordered Maps with at most n entries and distinct keys.
RECURSIVE MapsOver(_, _, _)
MapsOver(keys, vals, n) ==
    IF n = 0 THEN {<<>>}
    ELSE LET shorter == MapsOver(keys, vals, n - 1) IN
         shorter \cup
         {Append(m, <<k, v>>) : m \in shorter, k \in keys, v \in vals}

DistinctKeys(m) == \A i, j \in 1..Len(m) : m[i][1] = m[j][1] => i = j

UrlMaps == {m \in MapsOver({U1, U2}, {N1, N2, U2}, MaxMap) : DistinctKeys(m)}
PathMaps == {m \in MapsOver({L1, L2}, {N1, N2, L1}, MaxMap) : DistinctKeys(m)}

InitRewrite ==
    /\ SessionIdle
    /\ style \in Styles
    /\ fnOp \in {"urls", "paths"}
    /\ fnText \in IF fnOp = "urls" THEN TextsOver(UrlFrags, MaxFrags)
                  ELSE TextsOver(PathFrags, MaxFrags)
    /\ fnMap \in IF fnOp = "urls" THEN UrlMaps ELSE PathMaps
    /\ fnArgs = <<>>
    /\ fnOut = <<>>
    /\ ReachIdle
    /\ BatchIdle
    /\ RenameIdle

fnCurrent == IF fnOut = <<>> THEN fnText ELSE fnOut[Len(fnOut)]

\* replaceImageUrls applied to the text, then to its own result.
ApplyReplaceImageUrls ==
    /\ fnOp = "urls"
    /\ Len(fnOut) < 2
    /\ fnOut' = Append(fnOut, replaceImageUrls(fnCurrent, fnMap, style))
    /\ UNCHANGED <<style, sessionVars, fnOp, fnText, fnMap, fnArgs, reachVars,
                   batchVars, renameVars>>

\* replaceImagePaths applied to the text, then to its own result.
ApplyReplaceImagePaths ==
    /\ fnOp = "paths"
    /\ Len(fnOut) < 2
    /\ fnOut' = Append(fnOut, replaceImagePaths(fnCurrent, fnMap, style))
    /\ UNCHANGED <<style, sessionVars, fnOp, fnText, fnMap, fnArgs, reachVars,
                   batchVars, renameVars>>

NextRewrite == ApplyReplaceImageUrls \/ ApplyReplaceImagePaths

SpecRewrite == InitRewrite /\ [][NextRewrite]_vars


\* ------------------------------------------------ claims on the rewrite

Occurs(t, k) == \E i \in 1..Len(t) : LitAt(t, i, k)

\* No key of m, spaces encoded or not, is left anywhere in t.
NoKeyLeft(t, m) ==
    \A k \in MapKeys(m) : ~Occurs(t, k) /\ ~Occurs(t, encodeSpaces(k))

\* C4 (as claimed): for any text, any Map and either style, a rewrite function
\* applied to its own result returns that result unchanged.
C4_RewriteIdempotent ==
    Len(fnOut) = 2 => fnOut[2] = fnOut[1]

\* C4 (amended): a rewrite function applied to its own result returns that
\* result unchanged whenever the result no longer contains any key of the Map.
C4_IdempotentOnceKeysAreGone ==
    (Len(fnOut) = 2 /\ NoKeyLeft(fnOut[1], fnMap)) => fnOut[2] = fnOut[1]

\* C4 witness: a first pass that rewrote links and left no key behind, applied again.
C4_Witness ==
    /\ Len(fnOut) = 2
    /\ Len(fnMap) = 2
    /\ fnOut[1] # fnText
    /\ NoKeyLeft(fnOut[1], fnMap)

\* C5: with an empty Map both rewrite functions return the text unchanged.
C5_NoOpOnEmptyMap ==
    (fnMap = <<>> /\ Len(fnOut) >= 1) => fnOut[1] = fnText

\* C5 witness: a text with a link-wrapped composite and a simple link went
\* through replaceImageUrls with the empty Map.
C5_Witness ==
    /\ fnMap = <<>>
    /\ fnOp = "urls"
    /\ Len(fnOut) >= 1
    /\ fnText = Wrapped(<<"a">>, U1, U2) \o MdLink(<<"a">>, U1)

\* A Map as the plugin builds them: no value is a key or starts with http.
PlainMap(m) ==
    \A i \in 1..Len(m) : ~MapHas(m, m[i][2]) /\ ~startsWithHttp(m[i][2])

\* What the claims call the rendered link.
Rendered(alt, path, st) ==
    IF st = "wiki" THEN WikiLink(alt, path) ELSE MdLink(alt, encodeSpaces(path))

UrlSimpleLinks ==
    {[kind |-> "md", alt |-> <<"a">>, target |-> U1],
     [kind |-> "md", alt |-> <<>>, target |-> U1],
     [kind |-> "md", alt |-> <<"b">>, target |-> U2],
     [kind |-> "md", alt |-> <<"c">>, target |-> L1],
     [kind |-> "wiki", alt |-> <<"c">>, target |-> L1]}

LinkText(l) ==
    IF l.kind = "md" THEN MdLink(l.alt, l.target) ELSE WikiLink(l.alt, l.target)

\* The link the claim expects in place of l.
ExpectedUrlLink(l, m, st) ==
    IF l.kind = "md" /\ MapHas(m, l.target)
    THEN Rendered(l.alt, MapGet(m, l.target), st)
    ELSE LinkText(l)

\* C7: replaceImageUrls, given a Map from URLs to store paths, replaces every
\* simple link whose target is a key by the link rendered for the mapped path
\* with the same alt text, and leaves every other link byte-identical.
C7_EveryLinkRewrittenInPlace ==
    \A l1, l2 \in UrlSimpleLinks :
        (/\ fnOp = "urls"
         /\ Len(fnOut) >= 1
         /\ PlainMap(fnMap)
         /\ fnText = LinkText(l1) \o LinkText(l2))
        => fnOut[1] = ExpectedUrlLink(l1, fnMap, style)
                      \o ExpectedUrlLink(l2, fnMap, style)


\* ------------------------------------------------ unused attachments (util.ts)

A1 == <<"img/a", ".", "png">>
A2 == <<"b", ".", "jpg">>
A3 == <<"notes", ".", "pdf">>
D1 == <<"n1", ".", "md">>
D2 == <<"sub/n2", ".", "md">>
K1 == <<"board", ".", "canvas">>

ReachDocs == {D1, D2}
ReachAttachments == {A1, A2, A3}

\* TFile.extension
extension(path) == path[Len(path)]

imageExtensions == {"jpeg", "jpg", "png", "gif", "svg", "bmp", "webp", "avif"}

\* filePath.endsWith('.md')
endsWithMd(path) == Len(path) >= 2 /\ SubSeq(path, Len(path) - 1, Len(path)) = <<".", "md">>

\* bannerRegex /!\[\[(.*?)\]\]/ : the first "![[" that a "]]" follows on the
\* line; the result is [ok, target].
RECURSIVE BannerEnd(_, _)
BannerEnd(v, j) ==
    IF j + 1 > Len(v) THEN 0
    ELSE IF v[j] = "]" /\ v[j + 1] = "]" THEN j
    ELSE IF v[j] = NL THEN 0
    ELSE BannerEnd(v, j + 1)

RECURSIVE BannerFrom(_, _)
BannerFrom(v, i) ==
    IF i > Len(v) THEN [ok |-> FALSE, target |-> <<>>]
    ELSE IF LitAt(v, i, <<"!", "[", "[">>) /\ BannerEnd(v, i + 3) # 0
         THEN [ok |-> TRUE, target |-> SubSeq(v, i + 3, BannerEnd(v, i + 3) - 1)]
    ELSE BannerFrom(v, i + 1)

bannerMatch(value) == BannerFrom(value, 1)

\* imageRegex /.*(jpe?g|png|gif|svg|bmp|webp|avif)/i : one of the extension
\* words anywhere in the value.
pathIsAnImage(value) == \E i \in 1..Len(value) : value[i] \in imageExtensions

\* app.metadataCache.getFirstLinkpathDest(linkpath, sourcePath): the file the
\* link shorthand names, {} when there is none.
getFirstLinkpathDest(linkpath, files) ==
    {files[i] : i \in {k \in 1..Len(files) : files[k] = linkpath}}

\* getAllLinkMatchesInFile of linkDetector: the link targets found in the
\* body of a document, or in the text of a canvas node.
getAllLinkMatchesInFile(found) == found

\* Lines 72-81: the seed from resolvedLinks, without the documents.
ResolvedSeed(files, resolved) ==
    UNION {{filePath \in resolved[mdFile] : ~endsWithMd(filePath)} :
           mdFile \in DOMAIN resolved}

\* Lines 93-109: what the front-matter values of one document add.
FrontmatterContribution(fm, files) ==
    UNION {LET value == fm.values[k] IN
           IF bannerMatch(value).ok
           THEN getFirstLinkpathDest(bannerMatch(value).target, files)
           ELSE IF pathIsAnImage(value) THEN {value} ELSE {}
           : k \in 1..Len(fm.values)}

\* Lines 87-115: one markdown file.  A falsy frontmatter ends the turn of the
\* loop before the body is looked at.
MarkdownContribution(obsFile, fm, found, files) ==
    IF ~fm[obsFile].present THEN {}
    ELSE FrontmatterContribution(fm[obsFile], files)
         \cup getAllLinkMatchesInFile(found[obsFile])

\* Lines 133-145: the nodes of one parsed canvas.
NodeContribution(node) ==
    IF node.type = "file" THEN {node.file}
    ELSE IF node.type = "text" THEN getAllLinkMatchesInFile(node.links)
    ELSE {}

\* Lines 117-146: one canvas file.
CanvasContribution(read) ==
    IF read.text = "empty" THEN {}
    ELSE IF read.text = "invalid" THEN {}
    ELSE IF ~read.nodesIsArray THEN {}
    ELSE UNION {NodeContribution(read.nodes[k]) : k \in 1..Len(read.nodes)}

FileContribution(obsFile, fm, found, canvas, files) ==
    IF extension(obsFile) = "md" THEN MarkdownContribution(obsFile, fm, found, files)
    ELSE IF extension(obsFile) = "canvas" THEN CanvasContribution(canvas[obsFile])
    ELSE {}

\* The loop over the files, ended by the first canvas whose text does not
\* parse (mutation: the error is not caught at the file).
getAttachmentPathSetForVault_parseErrorEndsLoop(files, resolved, fm, found, canvas) ==
    ResolvedSeed(files, resolved)
    \cup UNION {FileContribution(files[i], fm, found, canvas, files) :
                i \in {k \in 1..Len(files) :
                          \A j \in 1..k : extension(files[j]) = "canvas"
                                              => canvas[files[j]].text # "invalid"}}

getAttachmentPathSetForVault(files, resolved, fm, found, canvas) ==
    ResolvedSeed(files, resolved)
    \cup UNION {FileContribution(files[i], fm, found, canvas, files) : i \in 1..Len(files)}

\* file.extension.toLowerCase()
toLowerCase(ext) == IF ext = "PNG" THEN "png" ELSE ext

\* The filter without the test of the extension (mutation).
isAttachment_anyExtension(file, type, excluded) ==
    toLowerCase(extension(file)) \notin {"md", "canvas", "base"}

\* The filter of the loop of getAttachmentsInVault.
isAttachment(file, type, excluded) ==
    LET fileExt == toLowerCase(extension(file)) IN
    /\ fileExt \notin excluded
    /\ fileExt \notin {"md", "canvas", "base"}
    /\ (fileExt \in imageExtensions \/ type = "all")

getAttachmentsInVault(files, type, excluded) ==
    SelectSeq(files, LAMBDA file : isAttachment(file, type, excluded))

getUnusedAttachments(files, type, excluded, usedAttachmentsSet) ==
    SelectSeq(getAttachmentsInVault(files, type, excluded),
              LAMBDA attachment : attachment \notin usedAttachmentsSet)

NoFrontmatter == [present |-> FALSE, values |-> <<>>]
Frontmatters ==
    {NoFrontmatter,
     [present |-> TRUE, values |-> <<>>],
     [present |-> TRUE, values |-> <<WikiLink(<<>>, A1)>>],
     [present |-> TRUE, values |-> <<<<"draft">>, A2>>]}

CanvasReads ==
    {[text |-> "empty", nodesIsArray |-> FALSE, nodes |-> <<>>],
     [text |-> "invalid", nodesIsArray |-> FALSE, nodes |-> <<>>],
     [text |-> "json", nodesIsArray |-> FALSE, nodes |-> <<>>],
     [text |-> "json", nodesIsArray |-> TRUE,
      nodes |-> <<[type |-> "file", file |-> A3, links |-> {}]>>],
     [text |-> "json", nodesIsArray |-> TRUE,
      nodes |-> <<[type |-> "text", file |-> <<>>, links |-> {A2}],
                  [type |-> "group", file |-> <<>>, links |-> {}]>>]}

InitReach ==
    /\ SessionIdle
    /\ style = "wiki"
    /\ FnIdle
    /\ BatchIdle
    /\ RenameIdle
    /\ allFiles = <<A1, D1, A2, K1, A3, D2>>
    /\ frontmatter \in [ReachDocs -> Frontmatters]
    /\ linkMatches \in [ReachDocs -> SUBSET {A1, A2}]
    /\ resolvedLinks \in [ReachDocs -> SUBSET {A1, A2, D1}]
    /\ \A d \in ReachDocs : resolvedLinks[d] \subseteq linkMatches[d] \cup {D1}
    /\ \A d \in ReachDocs : D1 \in resolvedLinks[d] <=> d = D2
    /\ canvasRead \in [{K1} -> CanvasReads]
    /\ excludedExtensions \in {{}, {"pdf"}}
    /\ unusedResult = [done |-> FALSE]

\* getUnusedAttachments(app, type, plugin), the whole call.
GetUnusedAttachments(type) ==
    /\ ~unusedResult.done
    /\ LET used == getAttachmentPathSetForVault(allFiles, resolvedLinks,
                       frontmatter, linkMatches, canvasRead)
       IN  unusedResult' =
               [done |-> TRUE, type |-> type, used |-> used,
                unused |-> getUnusedAttachments(allFiles, type,
                                                excludedExtensions, used)]
    /\ UNCHANGED <<style, sessionVars, fnVars, batchVars, renameVars, allFiles,
                   frontmatter, linkMatches,
                   resolvedLinks, canvasRead, excludedExtensions>>

NextReach == \E type \in {"image", "all"} : GetUnusedAttachments(type)

SpecReach == InitReach /\ [][NextReach]_vars

InSeq(x, q) == \E i \in 1..Len(q) : q[i] = x

\* C1: every target the link extractor finds in the body of a markdown
\* document, with or without front-matter, is in the used-path set, and
\* getUnusedAttachments does not return the attachment it names.
C1_ExtractedTargetsAreUsed ==
    unusedResult.done =>
        \A d \in ReachDocs : \A target \in getAllLinkMatchesInFile(linkMatches[d]) :
            /\ target \in unusedResult.used
            /\ ~InSeq(target, unusedResult.unused)


\* ------------------------------------------------- the processFile batch

\* The most image links a processed document holds.
MaxLinks == 2

\* The active document: notes/doc.md.
tFilePath == <<"notes", "/", "doc", ".", "md">>
curFileName == baseOf(nameOf(tFilePath))
currentDir == parentOf(tFilePath)

\* What randomSuffix() and generateFileName draw.
RandomSuffixes == {"ab12c", "x9z2q"}

Formats == {"JPEG", "PNG"}

\* The attachments the vault holds before the batch: a picture next to the
\* document and one an earlier batch stored.
OldPicture == inDir(currentDir, L1)
InitialVault == <<OldPicture, N1>>

\* settings.refererMappings: one entry per host, as the defaults have, or an
\* entry for the second host only.
MappingX == <<<<"http://x.com/a">>, "https://x.com/">>
MappingC == <<<<"http://c/d">>, "https://c/">>
RefererSettings == {<<MappingX, MappingC>>, <<MappingC>>}

\* The lines of a processed document: two remote links, the picture under its
\* bare name and under its vault path, the attachment already processed, and
\* a line with a link to a note and no image.
NoteLine == <<"see", " ", "[", "[", "note", "]", "]">>
BatchFrags ==
    {MdLink(<<"a">>, U1), MdLink(<<>>, U2), WikiLink(<<>>, L1),
     MdLink(<<"c">>, OldPicture), WikiLink(<<>>, nameOf(N1)), NoteLine}

RECURSIVE LinesOver(_, _)
LinesOver(frags, n) ==
    IF n = 0 THEN {<<>>}
    ELSE LinesOver(frags, n - 1) \cup
         {(IF t = <<>> THEN <<>> ELSE t \o <<NL>>) \o f :
              t \in LinesOver(frags, n - 1), f \in frags}

InitBatch ==
    /\ SessionIdle
    /\ style \in Styles
    /\ FnIdle
    /\ ReachIdle
    /\ RenameIdle
    /\ format \in Formats
    /\ refererMappings \in RefererSettings
    /\ referer = ""
    /\ vaultFiles = InitialVault
    /\ docText \in LinesOver(BatchFrags, MaxLinks)
    /\ writes = 0
    /\ pc = "start"
    /\ content = <<>>
    /\ networkImageUrls = <<>>
    /\ localImagePaths = <<>>
    /\ loopIndex = 0
    /\ processedMap = <<>>
    /\ successCount = 0
    /\ imageFile = <<>>
    /\ newAttachmentPath = <<>>

\* processFile writing the text it read back to the document (mutation).
ProcessFile_writesBack ==
    /\ pc = "start"
    /\ content' = docText
    /\ networkImageUrls' = extractNetworkImageUrls(docText)
    /\ localImagePaths' = extractLocalImagePaths(docText)
    /\ pc' = IF networkImageUrls' # <<>> THEN "netDownload"
             ELSE IF localImagePaths' # <<>> THEN "localCheck"
             ELSE "done"
    /\ loopIndex' = 1
    /\ referer' = IF networkImageUrls' # <<>>
                  THEN batchReferer(networkImageUrls', refererMappings)
                  ELSE referer
    /\ writes' = writes + 1
    /\ UNCHANGED <<style, sessionVars, fnVars, reachVars, renameVars, format, refererMappings,
                   vaultFiles, docText, processedMap, successCount,
                   imageFile, newAttachmentPath>>

\* processFile up to its first loop: read the document, extract both lists.
ProcessFile ==
    /\ pc = "start"
    /\ content' = docText
    /\ networkImageUrls' = extractNetworkImageUrls(docText)
    /\ localImagePaths' = extractLocalImagePaths(docText)
    /\ pc' = IF networkImageUrls' # <<>> THEN "netDownload"
             ELSE IF localImagePaths' # <<>> THEN "localCheck"
             ELSE "done"
    /\ loopIndex' = 1
    /\ referer' = IF networkImageUrls' # <<>>
                  THEN batchReferer(networkImageUrls', refererMappings)
                  ELSE referer
    /\ UNCHANGED <<style, sessionVars, fnVars, reachVars, renameVars, format, refererMappings,
                   vaultFiles, docText, writes, processedMap, successCount,
                   imageFile, newAttachmentPath>>

\* for (...; i++) of processNetworkImages, and processFile's step to the
\* local images once the loop is over.
afterNetworkItem ==
    /\ pc' = IF loopIndex < Len(networkImageUrls) THEN "netDownload"
             ELSE IF localImagePaths # <<>> THEN "localCheck"
             ELSE "done"
    /\ loopIndex' = IF loopIndex < Len(networkImageUrls) THEN loopIndex + 1 ELSE 1

\* for (...; i++) of processLocalImages.
afterLocalItem ==
    /\ pc' = IF loopIndex < Len(localImagePaths) THEN "localResolve" ELSE "done"
    /\ loopIndex' = IF loopIndex < Len(localImagePaths) THEN loopIndex + 1 ELSE 1

\* The catch of the loop of processNetworkImages (mutation: the error is
\* thrown on, out of the loop and of processFile).
networkItemCaught_rethrown ==
    /\ pc' = "done"
    /\ loopIndex' = loopIndex

\* catch (e) { ... new Notice(...) }: the loop goes on with the next URL.
networkItemCaught == afterNetworkItem

\* downloadImageToVault: DownloadImage stores the payload under an available
\* path for `${document}_${random}${extension}` and answers that name; the
\* handle is whatever file the attachment folder holds under the name.  A
\* rejected download throws into the loop's catch.
NetDownload ==
    /\ pc = "netDownload"
    /\ \/ /\ networkItemCaught
          /\ UNCHANGED <<vaultFiles, imageFile, processedMap, successCount>>
       \/ \E r \in RandomSuffixes :
            LET url == networkImageUrls[loopIndex]
                base == curFileName \o <<"_", r>>
            IN  /\ vaultFiles' = createBinary(vaultFiles,
                        getAvailablePathForAttachment(vaultFiles, base, extOf(url)))
                /\ imageFile' = inDir(attachmentDir, base \o <<".">> \o extOf(url))
                /\ pc' = "netConvert"
                /\ UNCHANGED <<loopIndex, processedMap, successCount>>
    /\ UNCHANGED <<style, sessionVars, fnVars, reachVars, renameVars, format,
                   refererMappings, referer,
                   docText, writes, content,
                   networkImageUrls, localImagePaths, newAttachmentPath>>

\* A rejected processImage (mutation: the original is deleted before the
\* conversion).
processImageThrows_originalDeleted(caught) ==
    /\ caught
    /\ vaultFiles' = deleteFile(vaultFiles, imageFile)
    /\ UNCHANGED <<newAttachmentPath, processedMap, successCount>>

\* await this.processImage(buffer) rejects: createBinary, delete and
\* processedMap.set of the item are not reached.
processImageThrows(caught) ==
    /\ caught
    /\ UNCHANGED <<vaultFiles, newAttachmentPath, processedMap, successCount>>

\* The new name and the conversion of one attachment, up to createBinary:
\* gif, svg and animated webp keep their bytes and extension, everything else
\* goes through processImage, which may throw into the loop's catch.
convertFrom(isGif, isSvg, next, caught) ==
    \E r \in RandomSuffixes, isAnimatedWebP \in BOOLEAN :
        LET keep == isGif \/ isSvg \/ isAnimatedWebP
            ext == IF keep THEN extOf(nameOf(imageFile)) ELSE targetExt(format)
            path == getAvailablePathForAttachment(vaultFiles,
                        curFileName \o <<"_", r>>, ext)
        IN  /\ isAnimatedWebP => ~isGif /\ ~isSvg /\ extOf(nameOf(imageFile)) = <<"webp">>
            /\ \/ /\ newAttachmentPath' = path
                  /\ vaultFiles' = createBinary(vaultFiles, path)
                  /\ pc' = next
                  /\ UNCHANGED <<loopIndex, processedMap, successCount>>
               \/ /\ ~keep
                  /\ processImageThrows(caught)

NetConvert ==
    /\ pc = "netConvert"
    /\ convertFrom(endsWith(networkImageUrls[loopIndex], <<"gif">>),
                   endsWith(networkImageUrls[loopIndex], <<"svg">>),
                   "netDelete", networkItemCaught)
    /\ UNCHANGED <<style, sessionVars, fnVars, reachVars, renameVars, format,
                   refererMappings, referer,
                   docText, writes, content,
                   networkImageUrls, localImagePaths, imageFile>>

\* vault.delete(file) without the await: the loop goes on to the next URL
\* while the map and the document of this one are still to be written
\* (mutation).
NetDelete_notAwaited ==
    /\ pc = "netDelete"
    /\ vaultFiles' = deleteFile(vaultFiles, imageFile)
    /\ afterNetworkItem
    /\ UNCHANGED <<style, sessionVars, fnVars, reachVars, renameVars, format,
                   refererMappings, referer,
                   docText, writes, content,
                   networkImageUrls, localImagePaths, processedMap,
                   successCount, imageFile, newAttachmentPath>>

\* await this.app.vault.delete(file)
NetDelete ==
    /\ pc = "netDelete"
    /\ vaultFiles' = deleteFile(vaultFiles, imageFile)
    /\ pc' = "netWrite"
    /\ UNCHANGED <<style, sessionVars, fnVars, reachVars, renameVars, format,
                   refererMappings, referer,
                   docText, writes, content,
                   networkImageUrls, localImagePaths, loopIndex, processedMap,
                   successCount, imageFile, newAttachmentPath>>

\* processedMap.set, successCount++ and the write of the rewritten text,
\* through the editor or vault.modify; a write that throws is caught.
NetWrite ==
    /\ pc = "netWrite"
    /\ processedMap' = MapSet(processedMap, networkImageUrls[loopIndex], newAttachmentPath)
    /\ successCount' = successCount + 1
    /\ \/ /\ docText' = replaceImageUrls(content, processedMap', style)
          /\ writes' = writes + 1
       \/ UNCHANGED <<docText, writes>>
    /\ afterNetworkItem
    /\ UNCHANGED <<style, sessionVars, fnVars, reachVars, renameVars, format,
                   refererMappings, referer,
                   vaultFiles, content,
                   networkImageUrls, localImagePaths, imageFile, newAttachmentPath>>

\* processLocalImages up to its loop: nothing to do when every local image
\* already is a processed attachment.
LocalCheck ==
    /\ pc = "localCheck"
    /\ pc' = IF areLocalImagesProcessed(curFileName, currentDir, localImagePaths,
                                        vaultFiles, format)
             THEN "done" ELSE "localResolve"
    /\ processedMap' = <<>>
    /\ successCount' = 0
    /\ loopIndex' = 1
    /\ UNCHANGED <<style, sessionVars, fnVars, reachVars, renameVars, format,
                   refererMappings, referer,
                   vaultFiles, docText, writes,
                   content, networkImageUrls, localImagePaths, imageFile,
                   newAttachmentPath>>

\* The head of one iteration, with a path that does not resolve put into the
\* map under its own name (mutation).
LocalResolve_unresolvedMapped ==
    /\ pc = "localResolve"
    /\ LET imagePath == localImagePaths[loopIndex]
           resolvedPath == resolveImagePath(imagePath, currentDir, vaultFiles)
       IN  IF isImagePathFormat(curFileName, nameOf(imagePath), format)
           THEN afterLocalItem /\ UNCHANGED <<imageFile, processedMap>>
           ELSE IF resolvedPath = Undefined
           THEN /\ afterLocalItem
                /\ processedMap' = MapSet(processedMap, imagePath, imagePath)
                /\ UNCHANGED imageFile
           ELSE /\ imageFile' = resolvedPath
                /\ pc' = "localConvert"
                /\ UNCHANGED <<loopIndex, processedMap>>
    /\ UNCHANGED <<style, sessionVars, fnVars, reachVars, renameVars, format,
                   refererMappings, referer,
                   vaultFiles, docText, writes,
                   content, networkImageUrls, localImagePaths,
                   successCount, newAttachmentPath>>

\* The head of one iteration: skip a name already in the processed format and
\* a path that does not resolve.
LocalResolve ==
    /\ pc = "localResolve"
    /\ LET imagePath == localImagePaths[loopIndex]
           resolvedPath == resolveImagePath(imagePath, currentDir, vaultFiles)
       IN  IF \/ isImagePathFormat(curFileName, nameOf(imagePath), format)
              \/ resolvedPath = Undefined
           THEN afterLocalItem /\ UNCHANGED imageFile
           ELSE /\ imageFile' = resolvedPath
                /\ pc' = "localConvert"
                /\ UNCHANGED loopIndex
    /\ UNCHANGED <<style, sessionVars, fnVars, reachVars, renameVars, format,
                   refererMappings, referer,
                   vaultFiles, docText, writes,
                   content, networkImageUrls, localImagePaths, processedMap,
                   successCount, newAttachmentPath>>

LocalConvert ==
    /\ pc = "localConvert"
    /\ convertFrom(endsWith(imageFile, <<".", "gif">>),
                   endsWith(imageFile, <<".", "svg">>),
                   "localDelete",
                   afterLocalItem)
    /\ UNCHANGED <<style, sessionVars, fnVars, reachVars, renameVars, format,
                   refererMappings, referer,
                   docText, writes, content,
                   networkImageUrls, localImagePaths, imageFile>>

\* await this.app.vault.delete(file)
LocalDelete ==
    /\ pc = "localDelete"
    /\ vaultFiles' = deleteFile(vaultFiles, imageFile)
    /\ pc' = "localWrite"
    /\ UNCHANGED <<style, sessionVars, fnVars, reachVars, renameVars, format,
                   refererMappings, referer,
                   docText, writes, content,
                   networkImageUrls, localImagePaths, loopIndex, processedMap,
                   successCount, imageFile, newAttachmentPath>>

LocalWrite ==
    /\ pc = "localWrite"
    /\ processedMap' = MapSet(processedMap, localImagePaths[loopIndex], newAttachmentPath)
    /\ successCount' = successCount + 1
    /\ \/ /\ docText' = replaceImagePaths(content, processedMap', style)
          /\ writes' = writes + 1
       \/ UNCHANGED <<docText, writes>>
    /\ afterLocalItem
    /\ UNCHANGED <<style, sessionVars, fnVars, reachVars, renameVars, format,
                   refererMappings, referer,
                   vaultFiles, content,
                   networkImageUrls, localImagePaths, imageFile, newAttachmentPath>>

\* The command is invoked again on the document once the first run is over.
InvokeAgain ==
    /\ pc = "done"
    /\ ~secondRun
    /\ secondRun' = TRUE
    /\ pc' = "start"
    /\ UNCHANGED <<style, parked, otherText, fnVars, reachVars, renameVars, format,
                   refererMappings, referer, vaultFiles, docText, writes, content,
                   networkImageUrls, localImagePaths, loopIndex, processedMap,
                   successCount, imageFile, newAttachmentPath>>

NextBatch ==
    \/ ProcessFile
    \/ NetDownload
    \/ NetConvert
    \/ NetDelete
    \/ NetWrite
    \/ LocalCheck
    \/ LocalResolve
    \/ LocalConvert
    \/ LocalDelete
    \/ LocalWrite

SpecBatch == InitBatch /\ [][NextBatch]_vars

\* A vault that also holds an animation next to the document, and documents
\* that may link it.
OldGif == inDir(currentDir, <<"anim", ".", "gif">>)
AgainVault == <<OldPicture, N1, OldGif>>
AgainFrags ==
    {MdLink(<<>>, U2), WikiLink(<<>>, L1), WikiLink(<<>>, nameOf(N1)),
     WikiLink(<<>>, nameOf(OldGif)), MdLink(<<"g">>, OldGif)}

InitAgain ==
    /\ style \in Styles
    /\ FnIdle
    /\ ReachIdle
    /\ RenameIdle
    /\ parked = <<>>
    /\ secondRun = FALSE
    /\ otherText = <<>>
    /\ format \in Formats
    /\ refererMappings = <<>>
    /\ referer = ""
    /\ vaultFiles = AgainVault
    /\ docText \in LinesOver(AgainFrags, MaxLinks)
    /\ writes = 0
    /\ pc = "start"
    /\ content = <<>>
    /\ networkImageUrls = <<>>
    /\ localImagePaths = <<>>
    /\ loopIndex = 0
    /\ processedMap = <<>>
    /\ successCount = 0
    /\ imageFile = <<>>
    /\ newAttachmentPath = <<>>

NextAgain ==
    \/ ProcessFile
    \/ NetDownload
    \/ NetConvert
    \/ NetDelete
    \/ NetWrite
    \/ LocalCheck
    \/ LocalResolve
    \/ LocalConvert
    \/ LocalDelete
    \/ LocalWrite
    \/ InvokeAgain

SpecAgain == InitAgain /\ [][NextAgain]_vars

\* Another document of the vault, notes/other.md, which links the picture
\* under its bare name or its vault path, or links no image.
otherFilePath == <<"notes", "/", "other", ".", "md">>
OtherTexts == {WikiLink(<<>>, L1), MdLink(<<"o">>, OldPicture), NoteLine}

InitShared ==
    /\ style \in Styles
    /\ FnIdle
    /\ ReachIdle
    /\ RenameIdle
    /\ parked = <<>>
    /\ secondRun = FALSE
    /\ otherText \in OtherTexts
    /\ format \in Formats
    /\ refererMappings = <<>>
    /\ referer = ""
    /\ vaultFiles = InitialVault
    /\ docText \in LinesOver(BatchFrags, MaxLinks)
    /\ writes = 0
    /\ pc = "start"
    /\ content = <<>>
    /\ networkImageUrls = <<>>
    /\ localImagePaths = <<>>
    /\ loopIndex = 0
    /\ processedMap = <<>>
    /\ successCount = 0
    /\ imageFile = <<>>
    /\ newAttachmentPath = <<>>

SpecShared == InitShared /\ [][NextBatch]_vars

MapValues(m) == {m[k][2] : k \in 1..Len(m)}

Elements(q) == {q[k] : k \in 1..Len(q)}

\* The local image targets of the stored text that named an attachment
\* before the batch or were stored by it.
OwedTargets ==
    {p \in Elements(extractLocalImagePaths(docText)) :
        \/ resolveImagePath(p, currentDir, InitialVault) # Undefined
        \/ p \in MapValues(processedMap)}

\* C2: at every step of a processFile batch every local image link of the
\* stored document text names an attachment that exists in the vault; no
\* attachment is deleted while the text still refers to it.
C2_NoDanglingLocalLink ==
    \A p \in OwedTargets : resolveImagePath(p, currentDir, vaultFiles) # Undefined

\* C3: in one processFile batch the document is written at most once, and
\* only when no download or conversion of the batch is left to do.
C3_SingleWriteAfterAllItems ==
    /\ writes <= 1
    /\ writes = 1 => pc = "done"

\* ----------------------------------------------------- the rename flow

\* The renamed document and the paths a rename event may report for it.
RenamedDoc == <<"notes", "/", "new", ".", "md">>
RenameEvents ==
    {<<RenamedDoc, <<"notes", "/", "old", ".", "md">>>>,
     <<RenamedDoc, <<"archive", "/", "new", ".", "md">>>>,
     <<<<"notes", "/", "new", ".", "png">>, <<"notes", "/", "old", ".", "png">>>>}

\* The attachments of the vault before the event: one in the attachment
\* folder and one in the vault root, both named after the old document, a
\* picture next to the document, one with a blank in its name, and a picture
\* of the same name in the attachment folder.
OldInFolder == inDir(attachmentDir, <<"old", "_", "x9z2q", ".", "png">>)
OldInRoot == <<"old", "_", "ab12c", ".", "jpg">>
BlankPicture == inDir(parentOf(RenamedDoc), L2)
FolderPicture == inDir(attachmentDir, L1)
RenameVault == <<OldInFolder, OldInRoot, OldPicture, BlankPicture, FolderPicture>>

\* The links of the renamed document.
RenameFrags ==
    {WikiLink(<<>>, nameOf(OldInFolder)), MdLink(<<"d">>, OldInFolder),
     WikiLink(<<"c">>, OldInRoot), WikiLink(<<>>, L1),
     MdLink(<<>>, encodeSpaces(L2)), MdLink(<<"b">>, U2),
     MdLink(<<>>, FolderPicture)}

InitRename ==
    /\ SessionIdle
    /\ style = "wiki"
    /\ FnIdle
    /\ ReachIdle
    /\ format = "JPEG"
    /\ refererMappings = <<>>
    /\ referer = ""
    /\ vaultFiles = RenameVault
    /\ docText \in LinesOver(RenameFrags, MaxLinks)
    /\ writes = 0
    /\ pc = "renameEvent"
    /\ content = <<>>
    /\ networkImageUrls = <<>>
    /\ localImagePaths = <<>>
    /\ loopIndex = 0
    /\ processedMap = <<>>
    /\ successCount = 0
    /\ imageFile = <<>>
    /\ newAttachmentPath = <<>>
    /\ fileRenameEnabled \in BOOLEAN
    /\ \E e \in RenameEvents : eventFile = e[1] /\ eventOldPath = e[2]
    /\ imageLinks = <<>>
    /\ renamedImages = <<>>
    /\ hasChanges = FALSE
    /\ failedRenames = <<>>

oldFileName == stripMd(pop(split(eventOldPath, "/")))
newFileName == stripMd(pop(split(eventFile, "/")))

\* handleFileRename without its two early returns (mutation).
HandleFileRename_unguarded ==
    /\ pc = "renameEvent"
    /\ pc' = "renameScheduled"
    /\ UNCHANGED <<style, sessionVars, fnVars, reachVars, renameVars, format,
                   refererMappings, referer,
                   vaultFiles,
                   docText, writes, content, networkImageUrls, localImagePaths,
                   loopIndex, processedMap, successCount, imageFile,
                   newAttachmentPath>>

\* handleFileRename: only a markdown file whose base name changed schedules
\* the image renames.
HandleFileRename ==
    /\ pc = "renameEvent"
    /\ pc' = IF /\ endsWith(nameOf(eventFile), <<".", "md">>)
                /\ oldFileName # <<>>
                /\ newFileName # <<>>
                /\ oldFileName # newFileName
             THEN "renameScheduled" ELSE "renameDone"
    /\ UNCHANGED <<style, sessionVars, fnVars, reachVars, renameVars, format,
                   refererMappings, referer,
                   vaultFiles,
                   docText, writes, content, networkImageUrls, localImagePaths,
                   loopIndex, processedMap, successCount, imageFile,
                   newAttachmentPath>>

\* The links of text whose target is there and does not start with http.
localLinksOf(text) ==
    SelectSeq(extractAllImageLinks(text),
              LAMBDA link : /\ extractImagePathFromLink(link) # Undefined
                            /\ ~startsWithHttp(extractImagePathFromLink(link)))

\* handleImageRenameAfterFileRename up to its loop: read the document and
\* collect its local image links.
ReadRenamedDocument ==
    /\ pc = "renameScheduled"
    /\ content' = docText
    /\ imageLinks' = localLinksOf(docText)
    /\ pc' = IF imageLinks' = <<>> THEN "renameDone" ELSE "renameLink"
    /\ loopIndex' = 1
    /\ renamedImages' = <<>>
    /\ hasChanges' = FALSE
    /\ UNCHANGED <<style, sessionVars, fnVars, reachVars, format, refererMappings, referer,
                   vaultFiles, docText, writes,
                   networkImageUrls, localImagePaths, processedMap, successCount,
                   imageFile, newAttachmentPath, fileRenameEnabled, eventFile,
                   eventOldPath, failedRenames>>

\* The end of one turn of the loop over imageLinks.
afterLink ==
    /\ loopIndex' = loopIndex + 1
    /\ pc' = IF loopIndex < Len(imageLinks) THEN "renameLink"
             ELSE IF hasChanges' THEN "renameWrite"
             ELSE "renameDone"

\* One turn of the loop: the name parts of the target, the suffix, the
\* resolved path, and the rename, which the vault rejects when the new path
\* is taken and may reject for reasons of its own.
RenameLink ==
    /\ pc = "renameLink"
    /\ LET imagePath == extractImagePathFromLink(imageLinks[loopIndex])
           imageFileName == pop(split(imagePath, "/"))
           lastDotIndex == lastIndexOf(imageFileName, ".", Len(imageFileName))
           imageNameWithoutExt == SubSeq(imageFileName, 1, lastDotIndex - 1)
           imageExtension == SubSeq(imageFileName, lastDotIndex + 1, Len(imageFileName))
           resolvedImagePath == resolveImagePath(imagePath, parentOf(eventFile), vaultFiles)
       IN  IF \/ trim(imageFileName) = <<>>
              \/ lastDotIndex = 0
              \/ imageNameWithoutExt = <<>>
              \/ imageExtension = <<>>
              \/ ~fileRenameEnabled
              \/ resolvedImagePath = Undefined
           THEN /\ UNCHANGED <<vaultFiles, renamedImages, hasChanges, failedRenames>>
                /\ afterLink
           ELSE \E fresh \in RandomSuffixes, accepted \in BOOLEAN :
                  LET randomStr == chooseRandomStr(imageNameWithoutExt, <<fresh>>)
                      newResolvedImagePath ==
                          newResolvedImagePathOf(resolvedImagePath, newFileName,
                                                 randomStr, imageExtension)
                  IN  /\ accepted => ~isTFile(vaultFiles, newResolvedImagePath)
                      /\ vaultFiles' = IF accepted
                                       THEN renameFile(vaultFiles, resolvedImagePath,
                                                       newResolvedImagePath)
                                       ELSE vaultFiles
                      /\ renamedImages' = recordRename(renamedImages, imagePath,
                                                       newResolvedImagePath, accepted)
                      /\ hasChanges' = hasChangesAfter(hasChanges, accepted)
                      /\ failedRenames' = IF accepted THEN failedRenames
                                          ELSE Append(failedRenames,
                                                      <<imagePath, resolvedImagePath>>)
                      /\ afterLink
    /\ UNCHANGED <<style, sessionVars, fnVars, reachVars, format, refererMappings, referer,
                   docText, writes, content,
                   networkImageUrls, localImagePaths, processedMap, successCount,
                   imageFile, newAttachmentPath, fileRenameEnabled, eventFile,
                   eventOldPath, imageLinks>>

\* if (hasChanges): vault.modify with the updated links; a modify that throws
\* is caught.
RenameWrite ==
    /\ pc = "renameWrite"
    /\ \/ /\ docText' = updateImageLinksInContent(content, renamedImages)
          /\ writes' = writes + 1
       \/ UNCHANGED <<docText, writes>>
    /\ pc' = "renameDone"
    /\ UNCHANGED <<style, sessionVars, fnVars, reachVars, renameVars, format,
                   refererMappings, referer,
                   vaultFiles,
                   content, networkImageUrls, localImagePaths, loopIndex,
                   processedMap, successCount, imageFile, newAttachmentPath>>

\* The locals of the running rename callback, and the event it serves.
flowLocals == <<pc, content, imageLinks, loopIndex, renamedImages, hasChanges,
                failedRenames, eventFile, eventOldPath>>

\* The running callback waits at an await (vault.read, renameFile,
\* vault.modify, or the timer) and the event loop goes on with the other one.
SwitchFlow ==
    /\ parked # <<>>
    /\ parked[1] # "renameDone"
    /\ parked' = flowLocals
    /\ pc' = parked[1]
    /\ content' = parked[2]
    /\ imageLinks' = parked[3]
    /\ loopIndex' = parked[4]
    /\ renamedImages' = parked[5]
    /\ hasChanges' = parked[6]
    /\ failedRenames' = parked[7]
    /\ eventFile' = parked[8]
    /\ eventOldPath' = parked[9]
    /\ UNCHANGED <<style, secondRun, otherText, fnVars, reachVars, format,
                   refererMappings, referer, vaultFiles, docText, writes,
                   networkImageUrls, localImagePaths, processedMap, successCount,
                   imageFile, newAttachmentPath, fileRenameEnabled>>

NextRename ==
    \/ HandleFileRename
    \/ ReadRenamedDocument
    \/ RenameLink
    \/ RenameWrite

SpecRename == InitRename /\ [][NextRename]_vars

\* Two renames of one document in a row, old -> mid -> new: the callback of
\* the first event runs, the second event waits for its turn.
MidDoc == <<"notes", "/", "mid", ".", "md">>
OverlapFrags ==
    {WikiLink(<<>>, nameOf(OldInFolder)), WikiLink(<<"c">>, OldInRoot),
     MdLink(<<"d">>, FolderPicture)}

InitOverlap ==
    /\ style = "wiki"
    /\ FnIdle
    /\ ReachIdle
    /\ secondRun = FALSE
    /\ otherText = <<>>
    /\ format = "JPEG"
    /\ refererMappings = <<>>
    /\ referer = ""
    /\ vaultFiles = RenameVault
    /\ docText \in LinesOver(OverlapFrags, MaxLinks)
    /\ writes = 0
    /\ pc = "renameEvent"
    /\ content = <<>>
    /\ networkImageUrls = <<>>
    /\ localImagePaths = <<>>
    /\ loopIndex = 0
    /\ processedMap = <<>>
    /\ successCount = 0
    /\ imageFile = <<>>
    /\ newAttachmentPath = <<>>
    /\ fileRenameEnabled = TRUE
    /\ eventFile = MidDoc
    /\ eventOldPath = <<"notes", "/", "old", ".", "md">>
    /\ imageLinks = <<>>
    /\ renamedImages = <<>>
    /\ hasChanges = FALSE
    /\ failedRenames = <<>>
    /\ parked = <<"renameEvent", <<>>, <<>>, 0, <<>>, FALSE, <<>>, RenamedDoc, MidDoc>>

NextOverlap ==
    \/ HandleFileRename
    \/ ReadRenamedDocument
    \/ RenameLink
    \/ RenameWrite
    \/ SwitchFlow

SpecOverlap == InitOverlap /\ [][NextOverlap]_vars

\* What a raw target named before the rename event.
resolvedBefore(target) == resolveImagePath(target, parentOf(RenamedDoc), RenameVault)

\* target is the bare name `${oldFileName}_${D}.${ext}` with D five
\* lower-case letters or digits.
isOldSuffixedName(target) ==
    /\ Len(target) = Len(oldFileName) + 4
    /\ startsWith(target, oldFileName \o <<"_">>)
    /\ target[Len(oldFileName) + 2] \in FiveLowerAlnum
    /\ target[Len(oldFileName) + 3] = "."

\* `${newFileName}_${D}.${ext}` for such a target.
newNameFor(target) ==
    newFileName \o SubSeq(target, Len(oldFileName) + 1, Len(target))

\* l with its target, which is raw, replaced by to, syntax and alt text kept.
retargeted(l, raw, to) ==
    IF startsWith(l, <<"!", "[", "[">>)
    THEN <<"!", "[", "[">> \o to \o SubSeq(l, 4 + Len(raw), Len(l))
    ELSE SubSeq(l, 1, IndexFrom(l, "]", 3)) \o <<"(">> \o encodeSpaces(to) \o <<")">>

\* The rename flow is over and wrote the document.
RenameWritten == pc = "renameDone" /\ writes = 1

\* C8 (as claimed): after the rename old -> new, a link by the bare name
\* old_D.ext whose attachment the vault agreed to rename has its attachment at
\* new_D.ext in the same folder, and the link reads ![[new_D.ext]].
C8_BareLinkBecomesBareNewName ==
    RenameWritten =>
        \A k \in 1..Len(imageLinks) :
            LET raw == extractImagePathFromLink(imageLinks[k]) IN
            isOldSuffixedName(raw) /\ MapHas(renamedImages, raw) =>
                /\ ~isTFile(vaultFiles, resolvedBefore(raw))
                /\ isTFile(vaultFiles,
                           inDir(parentOf(resolvedBefore(raw)), newNameFor(raw)))
                /\ Occurs(docText, retargeted(imageLinks[k], raw, newNameFor(raw)))

\* The document as written names, in place of every link whose target was
\* renamed, the same link with the new vault path as its target.
WrittenLinksRetargeted ==
    RenameWritten =>
        \A k \in 1..Len(imageLinks) :
            LET raw == extractImagePathFromLink(imageLinks[k]) IN
            MapHas(renamedImages, raw) /\ ~includes(raw, <<"/">>) =>
                Occurs(docText,
                       retargeted(imageLinks[k], raw, MapGet(renamedImages, raw)))

\* A turn of the loop that renames the attachment of a bare name moves it,
\* within its folder and with its extension, to new_D.ext when the name is
\* old_D.ext and to new_r.ext with a drawn r when the name has no suffix.
RenameStepNaming ==
    pc = "renameLink" /\ renamedImages' # renamedImages =>
        LET raw == extractImagePathFromLink(imageLinks[loopIndex])
            was == resolveImagePath(raw, parentOf(eventFile), vaultFiles)
            now == MapGet(renamedImages', raw)
        IN  ~includes(raw, <<"/">>) =>
            /\ isTFile(vaultFiles, was) /\ ~isTFile(vaultFiles', was)
            /\ ~isTFile(vaultFiles, now) /\ isTFile(vaultFiles', now)
            /\ parentOf(now) = parentOf(was)
            /\ extOf(nameOf(now)) = extOf(nameOf(was))
            /\ isOldSuffixedName(raw) => nameOf(now) = newNameFor(raw)
            /\ existingRandomMatch(baseOf(raw)) = Undefined =>
                   \E r \in RandomSuffixes :
                       nameOf(now) = newFileName \o <<"_", r, ".">> \o extOf(raw)

\* C8 (amended): the attachment a bare name resolves to is renamed to
\* new_D.ext in its own folder, D and the extension kept, and the link, in its
\* own syntax, names the vault path of the renamed attachment (the bare
\* new_D.ext only when the attachment lies in the vault root); a name without
\* such a suffix gets a freshly drawn one.
C8_LinkBecomesNewVaultPath ==
    [][RenameStepNaming]_vars /\ []WrittenLinksRetargeted

\* A link by a suffixed bare name and one by an unsuffixed name were both
\* renamed and the document was written.
C8_Witness ==
    /\ RenameWritten
    /\ MapHas(renamedImages, nameOf(OldInFolder))
    /\ MapHas(renamedImages, L1)
    /\ isTFile(vaultFiles, inDir(attachmentDir, <<"new", "_", "x9z2q", ".", "png">>))

\* C9: once a rename flow in which no rename was rejected has written the
\* document, no local image link of the document names, under any raw form,
\* an attachment the flow renamed.
C9_NoLinkToRenamedAttachment ==
    RenameWritten /\ failedRenames = <<>> =>
        \A k \in 1..Len(localLinksOf(docText)) :
            LET was == resolvedBefore(extractImagePathFromLink(localLinksOf(docText)[k]))
            IN  was # Undefined => isTFile(vaultFiles, was)

\* The links of a text whose target is raw, in order.
linksTo(raw, t) ==
    SelectSeq(extractAllImageLinks(t), LAMBDA l : extractImagePathFromLink(l) = raw)

\* C10: a rename the vault rejects does not end the flow: every link of the
\* event is visited, and the links that named the rejected attachment before
\* the event read in the document as they did, as long as that attachment
\* stays at its old path.
C10_RejectedRenameIsIsolated ==
    pc = "renameDone" /\ failedRenames # <<>> =>
        /\ loopIndex = Len(imageLinks) + 1
        /\ \A k \in 1..Len(failedRenames) :
               /\ resolvedBefore(failedRenames[k][1]) = failedRenames[k][2]
               /\ isTFile(vaultFiles, failedRenames[k][2])
               => linksTo(failedRenames[k][1], docText)
                      = linksTo(failedRenames[k][1], content)

\* One rename was rejected, a later one accepted, and the document written.
C10_Witness ==
    /\ RenameWritten
    /\ Len(failedRenames) = 1
    /\ isTFile(vaultFiles, failedRenames[1][2])
    /\ Len(renamedImages) = 1
    /\ extractImagePathFromLink(imageLinks[1]) = failedRenames[1][1]
    /\ resolvedBefore(failedRenames[1][1]) = failedRenames[1][2]
    /\ docText # content

\* At least one attachment has been renamed in the vault.
SomeRenameSucceeded == vaultFiles # RenameVault

\* The steps of the rename flow write the document only where some rename has
\* succeeded.
WriteStepIffRenamed ==
    /\ pc # "renameWrite" /\ pc' = "renameWrite" => SomeRenameSucceeded'
    /\ pc \notin {"renameWrite", "renameDone"} /\ pc' = "renameDone"
           => ~SomeRenameSucceeded' /\ writes' = 0 /\ docText' = docText
    /\ writes' # writes => pc = "renameWrite" /\ SomeRenameSucceeded

\* C11: the rename flow issues the write of the document if and only if at
\* least one attachment rename succeeded; with no link, no resolvable link,
\* every rename rejected or renaming disabled, the document is not written.
C11_WrittenIffSomeRenameSucceeded ==
    [][WriteStepIffRenamed]_vars

\* The flow ended after every rename was rejected, the document untouched.
C11_Witness ==
    /\ pc = "renameDone"
    /\ Len(failedRenames) = 2
    /\ ~SomeRenameSucceeded
    /\ writes = 0
    /\ docText = content

\* How often lit occurs in t.
RECURSIVE CountFrom(_, _, _)
CountFrom(t, lit, k) ==
    IF k > Len(t) THEN 0
    ELSE (IF LitAt(t, k, lit) THEN 1 ELSE 0) + CountFrom(t, lit, k + 1)

\* The links of t to the remote target url.
LinksToUrl(t, url) == CountFrom(t, <<"]", "(">> \o url \o <<")">>, 1)

\* processNetworkImages is at work, or has just returned.
InNetworkLoop == pc \in {"netDownload", "netConvert", "netDelete", "netWrite"}
NetworkLoopOver ==
    /\ networkImageUrls # <<>>
    /\ pc = "localCheck" \/ (pc = "done" /\ localImagePaths = <<>>)

\* A step in which the download or the conversion of the current URL fails.
NetworkItemFails ==
    \/ pc = "netDownload" /\ pc' # "netConvert"
    \/ pc = "netConvert" /\ pc' # "netDelete"

\* Such a step leaves the map and the document alone and goes on to the next
\* URL, or past the loop after the last one.
FailedItemIsSkipped ==
    NetworkItemFails =>
        /\ processedMap' = processedMap
        /\ docText' = docText
        /\ IF loopIndex < Len(networkImageUrls)
           THEN pc' = "netDownload" /\ loopIndex' = loopIndex + 1
           ELSE pc' = (IF localImagePaths # <<>> THEN "localCheck" ELSE "done")

\* The links of every URL that is not in the map read as they did.
UnmappedUrlsUntouched ==
    InNetworkLoop \/ NetworkLoopOver =>
        \A k \in 1..Len(networkImageUrls) :
            ~MapHas(processedMap, networkImageUrls[k]) =>
                LinksToUrl(docText, networkImageUrls[k])
                    = LinksToUrl(content, networkImageUrls[k])

\* C12: in processNetworkImages a failed download or conversion is caught at
\* its item: the URL stays out of the map, its link stays as it was, the
\* next URL is attempted and the handler goes on past the loop.
C12_FetchFailureIsIsolated ==
    [][FailedItemIsSkipped]_vars /\ []UnmappedUrlsUntouched

\* The first URL failed, the second was stored and written into the document.
C12_Witness ==
    /\ NetworkLoopOver
    /\ Len(networkImageUrls) = 2
    /\ ~MapHas(processedMap, networkImageUrls[1])
    /\ MapHas(processedMap, networkImageUrls[2])
    /\ writes = 1
    /\ LinksToUrl(docText, networkImageUrls[1]) = 1
    /\ LinksToUrl(docText, networkImageUrls[2]) = 0

\* A step in which processImage fails for the current attachment.
ConversionFails ==
    \/ pc = "netConvert" /\ pc' # "netDelete"
    \/ pc = "localConvert" /\ pc' # "localDelete"

ConversionFailureKeepsOriginal ==
    ConversionFails =>
        /\ isTFile(vaultFiles, imageFile)
        /\ vaultFiles' = vaultFiles
        /\ processedMap' = processedMap
        /\ docText' = docText

\* C13: when processImage fails, the downloaded or read file stays in the
\* vault as it was and no new attachment is created for the image.
C13_CodecFailureKeepsOriginal == [][ConversionFailureKeepsOriginal]_vars

\* The batch is over, one download and one local picture failed to convert:
\* the download and the local picture are both still in the vault.
C13_Witness ==
    /\ pc = "done"
    /\ Len(networkImageUrls) = 1
    /\ Len(localImagePaths) = 1
    /\ writes = 0
    /\ Len(vaultFiles) = Len(InitialVault) + 1
    /\ \A k \in 1..Len(InitialVault) : isTFile(vaultFiles, InitialVault[k])
    /\ imageFile = OldPicture
    /\ format = "JPEG"
    /\ networkImageUrls = <<U2>>
    /\ \E r \in RandomSuffixes :
          isTFile(vaultFiles, inDir(attachmentDir, curFileName \o <<"_", r, ".", "png">>))

\* The referer of the first entry whose pattern url contains, "" without one.
refererFor(url, mappings) ==
    IF firstMappingFrom(url, mappings, 1) = 0 THEN ""
    ELSE mappings[firstMappingFrom(url, mappings, 1)][2]

\* C14: every URL of a batch is fetched with the referer of the first entry
\* of refererMappings whose urlPattern it contains, and with the empty
\* referer when it contains none.
C14_RefererOfFirstMatchingEntry ==
    pc = "netDownload" =>
        referer = refererFor(networkImageUrls[loopIndex], refererMappings)


\* ------------------------------------------------------- the resolver

MaxVault == 3

OtherPicture == <<"other", "/", "pic", ".", "png">>
HttpdocsPicture == <<"httpdocs", "/", "pic", ".", "png">>
ResolveFiles ==
    {inDir(attachmentDir, L1), OldPicture, L1, OtherPicture, HttpdocsPicture}

\* The vaults of up to n of these files, in every order getFiles() may have.
RECURSIVE VaultsOver(_, _)
VaultsOver(S, n) ==
    IF n = 0 THEN {<<>>}
    ELSE VaultsOver(S, n - 1) \cup
         {Append(v, x) : v \in {w \in VaultsOver(S, n - 1) : Len(w) = n - 1},
                         x \in S}

Injective(v) == \A i, j \in 1..Len(v) : v[i] = v[j] => i = j

\* Raw targets: a bare name, vault paths, relative paths, a URL and a local
\* path whose first letters are http.
ResolveTargets ==
    {L1, inDir(attachmentDir, L1), <<".", "/">> \o L1, <<".", ".", "/">> \o L1,
     <<".", ".", "/">> \o OtherPicture, U1, HttpdocsPicture}

InitResolve ==
    /\ SessionIdle
    /\ style = "wiki"
    /\ fnOp = "resolve"
    /\ fnText \in ResolveTargets
    /\ fnMap = <<>>
    /\ fnArgs \in [dir : {<<>>, currentDir},
                   files : {v \in VaultsOver(ResolveFiles, MaxVault) : Injective(v)},
                   raisesAt : 0..5]
    /\ fnOut = <<>>
    /\ ReachIdle
    /\ BatchIdle
    /\ RenameIdle

\* resolveImagePath(imagePath, activeFile)
ApplyResolveImagePath ==
    /\ fnOp = "resolve"
    /\ fnOut = <<>>
    /\ fnOut' = <<resolveImagePathCaught(fnText, fnArgs.dir, fnArgs.files,
                                         fnArgs.raisesAt)>>
    /\ UNCHANGED <<style, sessionVars, fnOp, fnText, fnMap, fnArgs, reachVars,
                   batchVars, renameVars>>

NextResolve == ApplyResolveImagePath

SpecResolve == InitResolve /\ [][NextResolve]_vars

Resolved == fnOp = "resolve" /\ fnOut # <<>>

\* The first file of v whose name is n is x; Undefined when v has none.
FirstNamed(v, n, x) ==
    \/ x = Undefined /\ \A k \in 1..Len(v) : nameOf(v[k]) # n
    \/ \E k \in 1..Len(v) :
          /\ v[k] = x
          /\ nameOf(x) = n
          /\ \A j \in 1..(k - 1) : nameOf(v[j]) # n

\* C15: a local target resolves by the first of these that hits: the literal
\* lookup, the path relative to the folder of the document, and for a bare
\* name the attachment folder, the folder of the document and the scan of the
\* vault in enumeration order; a bare name present in the attachment folder
\* and elsewhere resolves to the attachment-folder path.
C15_ResolverFallbackOrder ==
    Resolved /\ fnArgs.raisesAt = 0 /\ ~startsWithHttp(fnText) =>
        LET v == fnArgs.files
            literal == isTFile(v, fnText)
            relative == \/ includes(fnText, <<".", ".", "/">>)
                        \/ startsWith(fnText, <<".", "/">>)
            relPath == resolveRelativePath(fnArgs.dir, fnText)
            bare == ~includes(fnText, <<"/">>)
            inAttachments == isTFile(v, inDir(attachmentDir, fnText))
            inDocumentDir == fnArgs.dir # <<>> /\ isTFile(v, inDir(fnArgs.dir, fnText))
        IN  /\ literal => fnOut[1] = fnText
            /\ ~literal /\ relative /\ isTFile(v, relPath) => fnOut[1] = relPath
            /\ ~literal /\ bare /\ inAttachments
                   => fnOut[1] = inDir(attachmentDir, fnText)
            /\ ~literal /\ bare /\ ~inAttachments /\ inDocumentDir
                   => fnOut[1] = inDir(fnArgs.dir, fnText)
            /\ ~literal /\ bare /\ ~inAttachments /\ ~inDocumentDir
                   => FirstNamed(v, fnText, fnOut[1])
            /\ ~literal /\ ~bare /\ ~(relative /\ isTFile(v, relPath))
                   => fnOut[1] = Undefined

\* The bare name lies in another folder (listed first), next to the document
\* and in the attachment folder: the attachment-folder path is the answer.
C15_Witness ==
    /\ Resolved
    /\ fnArgs.raisesAt = 0
    /\ fnText = L1
    /\ fnArgs.dir = currentDir
    /\ fnArgs.files = <<OtherPicture, OldPicture, inDir(attachmentDir, L1)>>
    /\ fnOut[1] = inDir(attachmentDir, L1)

\* C16: resolveImagePath answers null or the path of a file of the vault,
\* whatever the target and the vault, a raising lookup included.
C16_ResolverNeverThrows ==
    Resolved =>
        /\ fnOut[1] # Thrown
        /\ fnOut[1] = Undefined \/ isTFile(fnArgs.files, fnOut[1])

\* The literal lookup of a target that is in the vault raised: null.
C16_Witness ==
    /\ Resolved
    /\ fnArgs.raisesAt = 1
    /\ isTFile(fnArgs.files, fnText)
    /\ fnOut[1] = Undefined

\* The first part of a target that starts with http:// or https://.
SchemeAtoms == {"http://x.com/a", "http://c/d", "https://e/f"}

\* C17: a target is remote, and resolves to nothing, exactly when it starts
\* with http:// or https://; any other target, a local path whose first
\* letters are http included, goes through the local resolution.
C17_RemoteExactlyBySchemePrefix ==
    Resolved /\ fnArgs.raisesAt = 0 =>
        /\ fnText[1] \in SchemeAtoms => fnOut[1] = Undefined
        /\ fnText[1] \notin SchemeAtoms /\ isTFile(fnArgs.files, fnText)
               => fnOut[1] = fnText


\* ------------------------------------------------------- the extraction

\* Lines of a document: remote links, simple and link-wrapped, and local
\* links in both syntaxes, with and without alt text.
ExtractFrags ==
    {MdLink(<<"a">>, U1), Wrapped(<<>>, U1, U2), MdLink(<<>>, U2),
     WikiLink(<<>>, L1), WikiLink(<<"c">>, L1), MdLink(<<"c">>, L1),
     MdLink(<<>>, encodeSpaces(L2))}

InitExtract ==
    /\ SessionIdle
    /\ style = "wiki"
    /\ fnOp \in {"extractUrls", "extractPaths"}
    /\ fnText \in LinesOver(ExtractFrags, MaxFrags)
    /\ fnMap = <<>>
    /\ fnArgs = <<>>
    /\ fnOut = <<>>
    /\ ReachIdle
    /\ BatchIdle
    /\ RenameIdle

\* extractNetworkImageUrls(content)
ApplyExtractNetworkImageUrls ==
    /\ fnOp = "extractUrls"
    /\ fnOut = <<>>
    /\ fnOut' = <<extractNetworkImageUrls(fnText)>>
    /\ UNCHANGED <<style, sessionVars, fnOp, fnText, fnMap, fnArgs, reachVars,
                   batchVars, renameVars>>

\* extractLocalImagePaths(content)
ApplyExtractLocalImagePaths ==
    /\ fnOp = "extractPaths"
    /\ fnOut = <<>>
    /\ fnOut' = <<extractLocalImagePaths(fnText)>>
    /\ UNCHANGED <<style, sessionVars, fnOp, fnText, fnMap, fnArgs, reachVars,
                   batchVars, renameVars>>

NextExtract == ApplyExtractNetworkImageUrls \/ ApplyExtractLocalImagePaths

SpecExtract == InitExtract /\ [][NextExtract]_vars

\* C18: the lists extractNetworkImageUrls and extractLocalImagePaths return
\* hold each raw target at most once, however often and in whichever syntax
\* the text has it.
C18_ExtractionHasNoDuplicates ==
    fnOp \in {"extractUrls", "extractPaths"} /\ fnOut # <<>> => Injective(fnOut[1])


\* ------------------------------------------------ conversion of the style

\* Simple markdown links to local pictures: without alt text, with a word,
\* with a "|" and with brackets in it; the path bare, in a folder, and with a
\* space, encoded or not.
ConvertAlts == {<<>>, <<"a">>, <<"a", "|", "b">>, <<"fig", "[", "1", "]">>}
ConvertPaths == {L1, inDir(attachmentDir, L1), L2, encodeSpaces(L2)}
ConvertFrags == {MdLink(a, t) : a \in ConvertAlts, t \in ConvertPaths}

InitConvert ==
    /\ SessionIdle
    /\ style = "markdown"
    /\ fnOp = "convert"
    /\ fnText \in LinesOver(ConvertFrags, MaxFrags)
    /\ fnMap = <<>>
    /\ fnArgs = <<>>
    /\ fnOut = <<>>
    /\ ReachIdle
    /\ BatchIdle
    /\ RenameIdle

\* convertMarkdownToObsidian on the document
ApplyConvertMarkdownToObsidian ==
    /\ fnOp = "convert"
    /\ fnOut = <<>>
    /\ fnOut' = <<convertMarkdownToObsidian(fnText)>>
    /\ UNCHANGED <<style, sessionVars, fnOp, fnText, fnMap, fnArgs, reachVars,
                   batchVars, renameVars>>

\* convertObsidianToMarkdown on what that wrote
ApplyConvertObsidianToMarkdown ==
    /\ fnOp = "convert"
    /\ Len(fnOut) = 1
    /\ fnOut' = Append(fnOut, convertObsidianToMarkdown(fnOut[1]))
    /\ UNCHANGED <<style, sessionVars, fnOp, fnText, fnMap, fnArgs, reachVars,
                   batchVars, renameVars>>

NextConvert == ApplyConvertMarkdownToObsidian \/ ApplyConvertObsidianToMarkdown

SpecConvert == InitConvert /\ [][NextConvert]_vars

\* C19: converting a document of simple markdown links to local pictures to
\* the bracket-embed style and back gives the links their alt text and their
\* path again, the spaces of the path written %20.
C19_StyleRoundTrip ==
    fnOp = "convert" /\ Len(fnOut) = 2 => fnOut[2] = encodeSpaces(fnText)


\* ------------------------------------------------ the links as written

\* A line of the editor with a remote link in it, and the path its download
\* was stored under; a document with links to a picture with a blank in its
\* name, and the Map of the rename flow for it.
SingleLines ==
    {pre \o MdLink(a, u) \o post :
        pre \in {<<>>, <<"x", " ">>}, a \in {<<>>, <<"a">>}, u \in {U1, U2},
        post \in {<<>>, <<" ", "y">>}}
BlankFrags == {MdLink(<<"a">>, L2), MdLink(<<>>, encodeSpaces(L2)), WikiLink(<<>>, L2)}

InitRender ==
    /\ SessionIdle
    /\ style \in Styles
    /\ fnOp \in {"single", "renamed"}
    /\ fnText \in IF fnOp = "single" THEN SingleLines
                  ELSE LinesOver(BlankFrags, MaxFrags)
    /\ fnMap \in IF fnOp = "single" THEN {<<>>} ELSE {<<<<L2, N1>>>>, <<<<L2, N2>>>>}
    /\ fnArgs \in IF fnOp = "single" THEN {N1, N2} ELSE {<<>>}
    /\ fnOut = <<>>
    /\ ReachIdle
    /\ BatchIdle
    /\ RenameIdle

\* The remote link the command was invoked on: the first one of the line.
originalMatchOf(line) ==
    LET i == CHOOSE k \in 1..Len(line) : SimpleUrlMatchAt(line, k).ok
    IN  SubSeq(line, i, SimpleUrlMatchAt(line, i).last)

\* downloadAndReplaceSingleImage, from normalizedPath on
ApplyReplaceSingleImage ==
    /\ fnOp = "single"
    /\ fnOut = <<>>
    /\ fnOut' = <<replaceSingleImage(fnText, originalMatchOf(fnText), fnArgs, style)>>
    /\ UNCHANGED <<style, sessionVars, fnOp, fnText, fnMap, fnArgs, reachVars,
                   batchVars, renameVars>>

\* updateImageLinksInContent(content, renamedImages)
ApplyUpdateImageLinks ==
    /\ fnOp = "renamed"
    /\ fnOut = <<>>
    /\ fnOut' = <<updateImageLinksInContent(fnText, fnMap)>>
    /\ UNCHANGED <<style, sessionVars, fnOp, fnText, fnMap, fnArgs, reachVars,
                   batchVars, renameVars>>

NextRender == ApplyReplaceSingleImage \/ ApplyUpdateImageLinks

SpecRender == InitRender /\ [][NextRender]_vars

\* No token tok stands in t between index i and the next token close.
NoneUpTo(t, i, tok, close) ==
    \A k \in i..Len(t) :
        t[k] = tok => \E c \in i..(k - 1) : t[c] = close

\* C20: in what the single-image replacement and the rename rewrite write, a
\* markdown link has the spaces of its path written %20 and a bracket embed
\* has them literal.
C20_SpacesEncodedOnRender ==
    fnOp \in {"single", "renamed"} /\ fnOut # <<>> =>
        \A i \in 1..Len(fnOut[1]) :
            /\ LitAt(fnOut[1], i, <<"]", "(">>) => NoneUpTo(fnOut[1], i + 2, " ", ")")
            /\ LitAt(fnOut[1], i, <<"!", "[", "[">>)
                   => NoneUpTo(fnOut[1], i + 3, "%20", "]")


\* --------------------------------------------- claims on the unused list

\* What the enumeration keeps: no document, canvas or base file, no excluded
\* extension and, for type "image", image extensions only.
Enumerated(path, type) ==
    /\ extension(path) \notin {"md", "canvas", "base"} \cup excludedExtensions
    /\ type = "image" => extension(path) \in imageExtensions

\* q lists members of p in the order p has them, each once.
InOrderOf(q, p) ==
    \E f \in [1..Len(q) -> 1..Len(p)] :
        /\ \A i \in 1..Len(q) : p[f[i]] = q[i]
        /\ \A i, j \in 1..Len(q) : i < j => f[i] < f[j]

\* C21: getUnusedAttachments returns exactly the enumerated attachments whose
\* path is not in the used-path set, in the order getFiles() has them.
C21_UnusedIsEnumeratedMinusUsed ==
    unusedResult.done =>
        /\ \A k \in 1..Len(allFiles) :
               InSeq(allFiles[k], unusedResult.unused)
                   <=> /\ Enumerated(allFiles[k], unusedResult.type)
                       /\ allFiles[k] \notin unusedResult.used
        /\ InOrderOf(unusedResult.unused, allFiles)

\* Type "image", the pdf excluded by its extension, one picture used: the
\* other picture is the list.
C21_Witness ==
    /\ unusedResult.done
    /\ unusedResult.type = "image"
    /\ A1 \in unusedResult.used
    /\ A3 \notin unusedResult.used
    /\ unusedResult.unused = <<A2>>

\* C22: a canvas whose text is not valid JSON adds nothing to the used-path
\* set and ends nothing: the set is the seed of the resolved links and what
\* every document adds, the documents listed after the canvas included.
C22_MalformedCanvasIsIsolated ==
    unusedResult.done /\ canvasRead[K1].text = "invalid" =>
        unusedResult.used =
            ResolvedSeed(allFiles, resolvedLinks)
            \cup UNION {MarkdownContribution(d, frontmatter, linkMatches, allFiles) :
                        d \in ReachDocs}

\* The canvas does not parse, and the document listed after it is the only
\* one that names the second picture.
C22_Witness ==
    /\ unusedResult.done
    /\ canvasRead[K1].text = "invalid"
    /\ A2 \in unusedResult.used
    /\ A2 \notin ResolvedSeed(allFiles, resolvedLinks)
    /\ A2 \notin MarkdownContribution(D1, frontmatter, linkMatches, allFiles)
    /\ A2 \in MarkdownContribution(D2, frontmatter, linkMatches, allFiles)

\* A step in which a local item is passed over: already in the processed
\* format, or not resolved.
LocalItemSkipped == pc = "localResolve" /\ pc' # "localConvert"

\* The loops have one item in hand, that of loopIndex, and move to the next
\* one only from the step that ends the work on it: the write of the
\* document, or the failure or the skip of the item.
ItemsInTurn ==
    /\ pc \in {"netDownload", "netConvert", "netDelete", "netWrite",
               "localResolve", "localConvert", "localDelete", "localWrite"}
    /\ loopIndex' # loopIndex \/ pc' \in {"netDownload", "localResolve", "done"}
    => /\ \/ pc \in {"netWrite", "localWrite"}
          \/ NetworkItemFails
          \/ ConversionFails
          \/ LocalItemSkipped
       /\ \/ loopIndex' = loopIndex + 1 /\ pc' \in {"netDownload", "localResolve"}
          \/ loopIndex' = 1 /\ pc' \in {"localCheck", "done"}

\* C23: one batch has at most one download, conversion or write in hand, and
\* the work on item i+1 begins only when that on item i is completed or has
\* failed.
C23_ItemsOneAtATime == [][ItemsInTurn]_vars

\* The second URL is about to be fetched: the first one is stored, in the map
\* and written into the document.
C23_Witness ==
    /\ pc = "netDownload"
    /\ loopIndex = 2
    /\ MapHas(processedMap, networkImageUrls[1])
    /\ isTFile(vaultFiles, MapGet(processedMap, networkImageUrls[1]))
    /\ writes = 1

\* The links of t to the local target raw, in either syntax, the spaces of
\* a markdown link encoded or not.
LinksToLocal(t, raw) ==
    CountFrom(t, <<"!", "[", "[">> \o raw \o <<"]", "]">>, 1)
    + CountFrom(t, <<"!", "[", "[">> \o raw \o <<"|">>, 1)
    + CountFrom(t, <<"]", "(">> \o raw \o <<")">>, 1)
    + (IF encodeSpaces(raw) = raw THEN 0
       ELSE CountFrom(t, <<"]", "(">> \o encodeSpaces(raw) \o <<")">>, 1))

\* The turn of a local target that resolveImagePath does not resolve, in the
\* batch and in the rename flow.
UnresolvedTurn ==
    \/ /\ pc = "localResolve"
       /\ resolveImagePath(localImagePaths[loopIndex], currentDir, vaultFiles)
              = Undefined
    \/ /\ pc = "renameLink"
       /\ resolveImagePath(extractImagePathFromLink(imageLinks[loopIndex]),
                           parentOf(eventFile), vaultFiles) = Undefined

UnresolvedTurnChangesNothing ==
    UnresolvedTurn =>
        /\ vaultFiles' = vaultFiles
        /\ processedMap' = processedMap
        /\ renamedImages' = renamedImages
        /\ docText' = docText
        /\ writes' = writes

\* The links of a local target that is not in the map read as they did when
\* the batch began.
UnmappedPathsUntouched ==
    pc \in {"localResolve", "localConvert", "localDelete", "localWrite", "done"} =>
        \A k \in 1..Len(localImagePaths) :
            ~MapHas(processedMap, localImagePaths[k]) =>
                LinksToLocal(docText, localImagePaths[k])
                    = LinksToLocal(content, localImagePaths[k])

\* C24: a local target that resolveImagePath does not resolve is not put
\* into the rewrite map, no file is created, renamed or deleted for it, and
\* its links in the document stay as they are.
C24_UnresolvedTargetIsSkipped ==
    [][UnresolvedTurnChangesNothing]_vars /\ []UnmappedPathsUntouched

\* The batch is over with two local targets: the first one processed and
\* written, the second one not resolved, out of the map and still in the text.
C24_Witness ==
    /\ pc = "done"
    /\ Len(localImagePaths) = 2
    /\ MapHas(processedMap, localImagePaths[1])
    /\ ~MapHas(processedMap, localImagePaths[2])
    /\ resolveImagePath(localImagePaths[2], currentDir, vaultFiles) = Undefined
    /\ ~isImagePathFormat(curFileName, nameOf(localImagePaths[2]), format)
    /\ writes = 1
    /\ LinksToLocal(docText, localImagePaths[2]) = 1

\* The event reports a document whose name without extension has changed.
DocumentRenamed ==
    /\ endsWith(nameOf(eventFile), <<".", "md">>)
    /\ stripMd(nameOf(eventOldPath)) # stripMd(nameOf(eventFile))

\* Nothing of the vault has been read, renamed or written.
VaultUntouched ==
    /\ vaultFiles = RenameVault
    /\ writes = 0
    /\ content = <<>>
    /\ imageLinks = <<>>
    /\ renamedImages = <<>>

\* handleFileRename itself touches nothing, and what is done to the vault is
\* done by the callback of its timer.
StoreActionsAfterDelay ==
    /\ pc = "renameEvent" =>
           UNCHANGED <<vaultFiles, docText, writes, content, imageLinks, renamedImages>>
    /\ <<vaultFiles, docText, writes, content>>' # <<vaultFiles, docText, writes, content>>
           => pc \in {"renameScheduled", "renameLink", "renameWrite"}

\* C25: a rename event starts the flow only for a file whose name ends in
\* .md and whose base name changed; after any other event nothing is read,
\* renamed or written, and after a qualifying one only once the delay is over.
C25_RenameTriggerGuard ==
    /\ [](pc \in {"renameEvent", "renameScheduled", "renameLink",
                  "renameWrite", "renameDone"} /\ ~DocumentRenamed
              => pc \in {"renameEvent", "renameDone"} /\ VaultUntouched)
    /\ [][StoreActionsAfterDelay]_vars

\* The handler has returned from the move of a document that keeps its name:
\* the document has two links and nothing was touched.
C25_Witness ==
    /\ pc = "renameDone"
    /\ eventFile = RenamedDoc
    /\ eventOldPath = <<"archive", "/", "new", ".", "md">>
    /\ fileRenameEnabled
    /\ Len(localLinksOf(docText)) = 2
    /\ VaultUntouched

\* processFile found neither a remote nor a local image link.
NothingFound ==
    /\ pc # "start"
    /\ networkImageUrls = <<>>
    /\ localImagePaths = <<>>

\* C26: when processFile finds no image link in the document it fetches
\* nothing, leaves the vault as it is and does not write the document.
C26_NothingToDo ==
    NothingFound =>
        /\ pc = "done"
        /\ vaultFiles = InitialVault
        /\ writes = 0
        /\ docText = content
        /\ processedMap = <<>>
        /\ imageFile = <<>>

\* The document has two lines and no image link, and processFile is over.
C26_Witness ==
    /\ NothingFound
    /\ pc = "done"
    /\ docText = NoteLine \o <<NL>> \o NoteLine
    /\ vaultFiles = InitialVault
    /\ writes = 0

\* processFile is over, the document had remote and local image links, and
\* every item of both loops was stored and written into the document.
CombinedBatchSucceeded ==
    /\ pc = "done"
    /\ networkImageUrls # <<>>
    /\ localImagePaths # <<>>
    /\ writes = Len(networkImageUrls) + Len(localImagePaths)

\* C27: after a processFile over a document with remote and local image
\* links in which every item succeeded, the stored text links none of the
\* processed remote URLs and none of the processed local paths any more: the
\* write of the local images keeps the rewrite of the remote ones.
C27_CombinedBatchKeepsBothRewrites ==
    CombinedBatchSucceeded =>
        /\ \A k \in 1..Len(networkImageUrls) :
              networkImageUrls[k] \notin Elements(extractNetworkImageUrls(docText))
        /\ \A k \in 1..Len(localImagePaths) :
              localImagePaths[k] \notin Elements(extractLocalImagePaths(docText))

\* Both rename callbacks are over, the vault rejected no rename, and each
\* callback wrote the document if it had renamed an attachment.
BothFlowsOver ==
    /\ parked # <<>>
    /\ pc = "renameDone"
    /\ parked[1] = "renameDone"
    /\ failedRenames = <<>>
    /\ parked[7] = <<>>
    /\ writes = (IF hasChanges THEN 1 ELSE 0) + (IF parked[6] THEN 1 ELSE 0)

\* The targets of the local image links of the stored text.
localTargets == {extractImagePathFromLink(l) : l \in Elements(localLinksOf(docText))}

\* C28: whatever way two rename flows on one document interleave, once both
\* are over every local image link of the stored text names a file of the
\* vault.
C28_OverlappingFlowsLeaveNoDanglingLink ==
    BothFlowsOver =>
        \A p \in localTargets :
            resolveImagePath(p, parentOf(RenamedDoc), vaultFiles) # Undefined

\* path is what a run of processFile stores an attachment under:
\* `${document}_${five lower-case letters or digits}.${extension}` in the
\* attachment folder.
isStoredByProcessFile(path) ==
    /\ parentOf(path) = attachmentDir
    /\ Len(nameOf(path)) = Len(curFileName) + 4
    /\ startsWith(nameOf(path), curFileName \o <<"_">>)
    /\ nameOf(path)[Len(curFileName) + 2] \in FiveLowerAlnum
    /\ nameOf(path)[Len(curFileName) + 3] = "."

\* The second run read a document without remote images whose local image
\* links all name attachments of the vault that a run of processFile stored.
SecondRunOverProcessed ==
    /\ secondRun
    /\ pc # "start"
    /\ networkImageUrls = <<>>
    /\ localImagePaths # <<>>
    /\ \A k \in 1..Len(localImagePaths) :
          /\ isStoredByProcessFile(localImagePaths[k])
          /\ InSeq(localImagePaths[k], vaultFiles)

\* A step that leaves the vault and the document as they are.
NothingTouched ==
    /\ vaultFiles' = vaultFiles
    /\ docText' = docText
    /\ writes' = writes

\* C29: once processFile has processed every local image of a document, the
\* kept-extension ones (gif, svg, animated webp) included, a second
\* processFile on the unchanged document creates, renames and deletes no
\* attachment and does not write the document.
C29_SecondRunChangesNothing == [][SecondRunOverProcessed => NothingTouched]_vars

\* The local image targets of the other document that named an attachment
\* before the batch.
otherTargets ==
    {p \in Elements(extractLocalImagePaths(otherText)) :
        resolveImagePath(p, parentOf(otherFilePath), InitialVault) # Undefined}

\* C30: when processLocalImages has replaced the attachments of the processed
\* document, no other document of the vault links an attachment that is gone.
C30_OtherDocumentsKeepTheirAttachments ==
    pc = "done" =>
        \A p \in otherTargets :
            resolveImagePath(p, parentOf(otherFilePath), vaultFiles) # Undefined

=============================================================================
